---- MODULE Spec2Model ----
(***************************************************************************)
(* dbslice: selection resolver, table-group builder, precopy stage,        *)
(* reconciliation passes, redaction, promotion and the full migration,    *)
(* modelled as state machines.                                             *)
(*                                                                         *)
(* A table is a record [exists, rows, logged, pk]; rows is a bag (a       *)
(* multiset) of rows. A selection sub-query is a record whose evaluation  *)
(* (EvalSql) is the sequence of identifiers PostgreSQL returns for it.    *)
(***************************************************************************)
EXTENDS Integers, Sequences, FiniteSets, Bags, TLC

\* ---------------------------------------------------------------- bounds
MaxSel == 2          \* longest identifier list a selector returns
MaxEnsure == 1       \* longest ensure list
MaxCount == 2        \* largest shard.count / shard_count

\* Identifiers a selector or an ensure list may name; the source root table
\* holds a row for each identifier of SrcRootIds (its primary key is id).
Ids == {1, 2, 3}
SrcRootIds == {1, 2}
Weights == {1, 3}
\* SQL NULL, as a value outside every column's integers
NULL == -999

Modes == {"list", "sql", "referenced_by", "referenced_by_column",
          "fk_in_stage", "refers_to_stage", "scope_or_exists"}
\* Modes whose query is SELECT DISTINCT ... or a UNION of SELECT DISTINCTs.
DistinctModes == Modes \ {"list", "sql"}

\* ------------------------------------------------------ sequences, bags
Range(s) == {s[i] : i \in DOMAIN s}
InSeq(x, s) == x \in Range(s)
NoDup(s) == \A i, j \in DOMAIN s : s[i] = s[j] => i = j
SeqsUpTo(S, n) == UNION {[1..k -> S] : k \in 0..n}
SeqToBag(s) == [x \in Range(s) |-> Cardinality({i \in DOMAIN s : s[i] = x})]

\* ----------------------------------------------------------------- state
VARIABLES
    cfg,            \* the normalized plan of one table group and its root
    selections,     \* build_selections' result: the identifier list
    selsrc,         \* cfg['_selection_sources'][name]: sql and shards
    rootSh,         \* shards_schema.<root>_sh<i>
    depSh,          \* shards_schema.<dep>_pmsh<i>
    dstRoot,        \* dest_schema.<root>
    dstDep,         \* dest_schema.<dep>
    pc,             \* position of the driver in run_families
    done,           \* parallel sub-tasks of the current fan-out that finished
    created,        \* run_families' result list
    srcNo,          \* multi-source form: the source being inserted (1-based)
    usedShards,     \* run_families' used_shards flag
    pre,            \* precopy stage: plan, destination tables, task positions
    con,            \* constraint reconciliation: catalogs and position
    idx,            \* index reconciliation: catalogs and position
    sq,             \* sequence reconciliation: catalogs and position
    tg,             \* trigger reconciliation: catalogs and position
    nd,             \* redaction: rules, rows and shard tasks
    sw,             \* schemas of the database: promotion, reset, restart
    pl,             \* the full migration: stages, results and objects
    ph,             \* the phased data stage: roots, groups and what was built
    lc,             \* destination tables of a group over repeated runs
    rq,             \* migrate-tables: requested groups and required roots
    rs,             \* reset NAMES: relations of the three schemas
    wk,             \* worker tasks and the tables they write
    nt,             \* redaction over several tables: targets and outcome
    va              \* parallel foreign-key validation: tasks and statements

engVars == <<cfg, selections, selsrc, rootSh, depSh, dstRoot, dstDep, pc,
             done, created, srcNo, usedShards>>

opsVars == <<sq, tg, nd, sw, pl>>
runVars == <<ph, lc, rq, rs, wk, nt, va>>
vars == <<engVars, pre, con, idx, opsVars, runVars>>
Idle == [stage |-> "idle"]
RunIdle ==
    /\ ph = Idle /\ lc = Idle /\ rq = Idle
    /\ rs = Idle /\ wk = Idle /\ nt = Idle /\ va = Idle
OpsIdle == sq = Idle /\ tg = Idle /\ nd = Idle /\ sw = Idle /\ pl = Idle

\* ---------------------------------------------------------------- tables
Absent == [exists |-> FALSE, rows |-> EmptyBag, logged |-> FALSE, pk |-> FALSE]
Unlogged(rows) == [exists |-> TRUE, rows |-> rows, logged |-> FALSE, pk |-> FALSE]

\* root.join, default 'd.id = p.id'
RootJoin(d, p) == d = p
\* a dep's join, 'd.parent_id = p.id'; a NULL parent_id matches nothing
DepJoin(d, p) == d.pid # NULL /\ d.pid = p
\* the ON clause of the statement: root_join for a root, join for a dep
JoinOn(on, d, p) == IF on = "root_join" THEN RootJoin(d, p) ELSE DepJoin(d, p)

\* SELECT d.* FROM src d JOIN parent p ON <on>: one output row per
\* matching pair.
Matches(d, parent, on) ==
    BagCardinality([p \in {q \in DOMAIN parent : JoinOn(on, d, q)} |-> parent[p]])
\* JoinBag as "JOIN ... ON TRUE" would compute it: the predicate is dropped
JoinBagNoPredicate(src, parent, on) ==
    [d \in {x \in DOMAIN src : BagCardinality(parent) > 0}
        |-> src[d] * BagCardinality(parent)]
JoinBag(src, parent, on) ==
    [d \in {x \in DOMAIN src : Matches(x, parent, on) > 0}
        |-> src[d] * Matches(d, parent, on)]

\* The source root table: one row per identifier.
SrcRoot == SetToBag(SrcRootIds)

\* ------------------------------------------------------------ selections
FalseSql == [kind |-> "false", ids |-> <<>>]
ValuesSql(ids) ==
    IF ids = <<>> THEN FalseSql ELSE [kind |-> "values", ids |-> ids]
\* A query registered as text: executing it returns the rows the selector's
\* own execution returned.
QuerySql(rows) == [kind |-> "query", ids |-> rows]
EvalSql(q) == IF q.kind = "false" THEN <<>> ELSE q.ids

RECURSIVE AppendEnsure(_, _)
AppendEnsure(ids, ens) ==
    IF ens = <<>> THEN ids
    ELSE AppendEnsure(IF InSeq(Head(ens), ids) THEN ids
                      ELSE Append(ids, Head(ens)), Tail(ens))

\* _select_ids: <<ids, sel_sql>>. The sub-query is fixed before the ensure
\* list is appended to ids.
SelectIds(root) ==
    LET rows == root.rows
        sql == IF root.mode = "list" THEN ValuesSql(rows) ELSE QuerySql(rows)
    IN <<AppendEnsure(rows, root.ensure), sql>>

\* round_robin: identifier at index pos (0-based) goes to shard pos % count
RECURSIVE RoundRobinFrom(_, _, _, _)
RoundRobinFrom(ids, pos, k, count) ==
    IF ids = <<>> THEN <<>>
    ELSE (IF pos % count = k THEN <<Head(ids)>> ELSE <<>>)
         \o RoundRobinFrom(Tail(ids), pos + 1, k, count)
RoundRobin(ids, count) ==
    [k \in 0..(count - 1) |-> RoundRobinFrom(ids, 0, k, count)]

\* items.sort(key=weight, reverse=True): stable
RECURSIVE InsertDesc(_, _)
InsertDesc(x, sorted) ==
    IF sorted = <<>> THEN <<x>>
    ELSE IF Head(sorted)[2] <= x[2] THEN <<x>> \o sorted
    ELSE <<Head(sorted)>> \o InsertDesc(x, Tail(sorted))
RECURSIVE SortDesc(_)
SortDesc(items) ==
    IF items = <<>> THEN <<>> ELSE InsertDesc(Head(items), SortDesc(Tail(items)))

\* min(range(count), key=totals): the first index with the least total
MinIndex(totals, count) ==
    CHOOSE k \in 0..(count - 1) :
        \A j \in 0..(count - 1) :
            totals[k] < totals[j] \/ (totals[k] = totals[j] /\ k <= j)

RECURSIVE Greedy(_, _, _, _)
Greedy(items, shards, totals, count) ==
    IF items = <<>> THEN shards
    ELSE LET k == MinIndex(totals, count)
             rid == Head(items)[1]
             w == Head(items)[2]
         IN Greedy(Tail(items),
                   [shards EXCEPT ![k] = Append(@, rid)],
                   [totals EXCEPT ![k] = @ + w], count)
Weighted(ids, weights, count) ==
    LET items == [i \in DOMAIN ids |->
                    <<ids[i], IF ids[i] \in DOMAIN weights
                              THEN weights[ids[i]] ELSE 1>>]
    IN Greedy(SortDesc(items), [k \in 0..(count - 1) |-> <<>>],
              [k \in 0..(count - 1) |-> 0], count)

\* The shard lists build_selections computes when shard.count > 1.
ShardLists(ids, root) ==
    IF root.strategy = "weighted" /\ root.hasWeights
    THEN Weighted(ids, root.weights, root.count)
    ELSE RoundRobin(ids, root.count)

Sharded(root) == root.attached /\ root.count > 1

\* ------------------------------------------------------- configurations
WeightedIds == {1, 2}
ShardCfgs ==
    {[count |-> 0, strategy |-> "round_robin", hasWeights |-> FALSE,
      weights |-> <<>>]}
    \cup {[count |-> c, strategy |-> "round_robin", hasWeights |-> FALSE,
           weights |-> <<>>] : c \in 2..MaxCount}
    \cup {[count |-> c, strategy |-> "weighted", hasWeights |-> TRUE,
           weights |-> w] : c \in 2..MaxCount, w \in [WeightedIds -> Weights]}

SelectorRows(mode) ==
    IF mode \in DistinctModes
    THEN {s \in SeqsUpTo(Ids, MaxSel) : NoDup(s)}
    ELSE SeqsUpTo(Ids, MaxSel)

RootCfg(mode, rows, ensure, attached, sh) ==
    [mode |-> mode, rows |-> rows, ensure |-> ensure, attached |-> attached,
     count |-> sh.count, strategy |-> sh.strategy,
     hasWeights |-> sh.hasWeights, weights |-> sh.weights]

RootCfgs ==
    {RootCfg(m, r, e, TRUE, sh) :
        m \in Modes, r \in SeqsUpTo(Ids, MaxSel),
        e \in SeqsUpTo(Ids, MaxEnsure), sh \in ShardCfgs}
NoDep == [form |-> "none"]
\* cfg['_selection_sources'] of a second selection, one a dep source may
\* name: its sub-query, its shard sub-queries, and whether its root carries
\* a shard block
NoOther == [sql |-> FalseSql, shards |-> <<>>, shard |-> FALSE]
OtherCounts == {0, 2, 3}
OtherSel(ids, c) ==
    [sql |-> ValuesSql(ids),
     shards |-> IF c > 1
                THEN [k \in 0..(c - 1) |-> ValuesSql(RoundRobin(ids, c)[k])]
                ELSE <<>>,
     shard |-> c > 1]
OtherSels == {OtherSel(<<3, 2, 1>>, c) : c \in OtherCounts}

NoShards == [i \in {} |-> Absent]

\* --------------------------------------------------------------- engine
EngInit ==
    /\ cfg \in {[root |-> r, dep |-> NoDep] :
                    r \in {x \in RootCfgs : x.rows \in SelectorRows(x.mode)}
                       \cup {RootCfg("list", rr, <<>>, FALSE, sh) :
                                rr \in SeqsUpTo(Ids, 1),
                                sh \in {y \in ShardCfgs : ~y.hasWeights}}}
    /\ selections = <<>>
    /\ selsrc = [sql |-> FalseSql, shards |-> <<>>, other |-> NoOther]
    /\ rootSh = NoShards
    /\ depSh = NoShards
    /\ dstRoot = Absent
    /\ dstDep = Absent
    /\ pc = "select"
    /\ done = {}
    /\ created = <<>>
    /\ srcNo = 0
    /\ usedShards = FALSE
    /\ RunIdle
    /\ pre = Idle /\ con = Idle /\ idx = Idle /\ OpsIdle

\* build_selections for the group's root
BuildSelections ==
    /\ pc = "select"
    /\ LET r == SelectIds(cfg.root)
           ids == r[1]
           lists == ShardLists(ids, cfg.root)
       IN /\ selections' = ids
          /\ selsrc' = [other |-> selsrc.other, sql |-> r[2],
                        shards |-> IF cfg.root.count > 1
                                   THEN [k \in 0..(cfg.root.count - 1)
                                            |-> ValuesSql(lists[k])]
                                   ELSE <<>>]
    /\ pc' = "root"
    /\ UNCHANGED <<pre, con, idx, opsVars, runVars>>
    /\ UNCHANGED <<cfg, srcNo, rootSh, depSh, dstRoot, dstDep, done, created,
                   usedShards>>

AfterRoot == IF cfg.dep.form = "none" THEN "finalize" ELSE "dep"
ShardIdx == 0..(cfg.root.count - 1)

\* run_families, root not sharded: one CREATE UNLOGGED TABLE ... AS SELECT
RootSimple ==
    /\ pc = "root"
    /\ ~Sharded(cfg.root)
    /\ dstRoot' = IF cfg.root.attached
                  THEN Unlogged(JoinBag(SrcRoot, SeqToBag(EvalSql(selsrc.sql)),
                                        "root_join"))
                  ELSE Unlogged(EmptyBag)
    /\ pc' = AfterRoot
    /\ UNCHANGED <<pre, con, idx, opsVars, runVars>>
    /\ UNCHANGED <<cfg, srcNo, selections, selsrc, rootSh, depSh, dstDep, done,
                   created, usedShards>>

\* _build_one(i): shards_schema.<root>_sh<i>
RootBuildShard(i) ==
    /\ pc = "root"
    /\ Sharded(cfg.root)
    /\ i \in ShardIdx \ done
    /\ rootSh' = IF i \in DOMAIN selsrc.shards
                 THEN [k \in DOMAIN rootSh \cup {i} |->
                        IF k = i
                        THEN Unlogged(JoinBag(SrcRoot,
                                 SeqToBag(EvalSql(selsrc.shards[i])), "root_join"))
                        ELSE rootSh[k]]
                 ELSE rootSh
    /\ done' = done \cup {i}
    /\ usedShards' = TRUE
    /\ UNCHANGED <<pre, con, idx, opsVars, runVars>>
    /\ UNCHANGED <<cfg, srcNo, selections, selsrc, depSh, dstRoot, dstDep, pc,
                   created>>

\* after the gather: DROP TABLE IF EXISTS, CREATE UNLOGGED TABLE (LIKE ...)
RootCreate ==
    /\ pc = "root"
    /\ Sharded(cfg.root)
    /\ done = ShardIdx
    /\ dstRoot' = Unlogged(EmptyBag)
    /\ pc' = "root_insert"
    /\ done' = {}
    /\ UNCHANGED <<pre, con, idx, opsVars, runVars>>
    /\ UNCHANGED <<cfg, srcNo, selections, selsrc, rootSh, depSh, dstDep, created,
                   usedShards>>

\* _insert_one(i): INSERT INTO dst.<root> SELECT * FROM <root>_sh<i>
RootInsertShard(i) ==
    /\ pc = "root_insert"
    /\ i \in ShardIdx \ done
    /\ i \in DOMAIN rootSh
    /\ dstRoot' = [dstRoot EXCEPT !.rows = @ (+) rootSh[i].rows]
    /\ done' = IF done \cup {i} = ShardIdx THEN {} ELSE done \cup {i}
    /\ pc' = IF done \cup {i} = ShardIdx THEN AfterRoot ELSE pc
    /\ UNCHANGED <<pre, con, idx, opsVars, runVars>>
    /\ UNCHANGED <<cfg, srcNo, selections, selsrc, rootSh, depSh, dstDep, created,
                   usedShards>>

\* The source primary key can be added when no key value repeats.
PkAddable(t) == \A r \in DOMAIN t.rows : t.rows[r] = 1

\* finalization of the root: ANALYZE, SET LOGGED, add the source primary key
FinalizeRoot ==
    /\ pc = "finalize"
    /\ Len(created) = 0
    /\ IF PkAddable(dstRoot)
       THEN /\ dstRoot' = [dstRoot EXCEPT !.logged = TRUE, !.pk = TRUE]
            /\ created' = Append(created, "root")
            /\ pc' = IF cfg.dep.form = "none" THEN "cleanup" ELSE pc
       ELSE /\ dstRoot' = [dstRoot EXCEPT !.logged = TRUE]
            /\ created' = created
            /\ pc' = "error"
    /\ UNCHANGED <<pre, con, idx, opsVars, runVars>>
    /\ UNCHANGED <<cfg, srcNo, selections, selsrc, rootSh, depSh, dstDep, done,
                   usedShards>>

\* scratch cleanup: reset_schema(shards_schema) when sharding was used
Cleanup ==
    /\ pc = "cleanup"
    /\ rootSh' = IF usedShards THEN NoShards ELSE rootSh
    /\ depSh' = IF usedShards THEN NoShards ELSE depSh
    /\ pc' = "done"
    /\ UNCHANGED <<pre, con, idx, opsVars, runVars>>
    /\ UNCHANGED <<cfg, srcNo, selections, selsrc, dstRoot, dstDep, done, created,
                   usedShards>>

\* ------------------------------------------------------------ dependents
MaxDep == 2          \* most rows of the source dep table

\* Values of the dep's shard_key column.
Keys == {-1, 0, 1, NULL}
\* The source dep table: primary key id, parent reference pid, shard key k.
DepUniverse ==
    {[id |-> 1, pid |-> 1, k |-> 0], [id |-> 2, pid |-> 1, k |-> 1],
     [id |-> 3, pid |-> 1, k |-> -1], [id |-> 4, pid |-> 1, k |-> NULL],
     [id |-> 5, pid |-> 2, k |-> 0], [id |-> 6, pid |-> 2, k |-> 1],
     [id |-> 7, pid |-> 2, k |-> -1], [id |-> 8, pid |-> NULL, k |-> 1]}
SrcDepTables == {S \in SUBSET DepUniverse : Cardinality(S) <= MaxDep}


\* PostgreSQL's integer %: the result takes the sign of the dividend
PgMod(a, n) == IF a >= 0 THEN a % n ELSE -((-a) % n)
\* hashtext(text): some 32-bit integer per value
HashText(k) == CASE k = -1 -> -7 [] k = 0 -> 4 [] k = 1 -> -10 [] OTHER -> 0
PgAbs(a) == IF a < 0 THEN -a ELSE a

\* the predicate _build_pmsh(i) adds: (d.key % sc) = i for an integer column,
\* (abs(hashtext(d.key::text)) % sc) = i otherwise; NULL is never true
PmshPred(d, isInt, sc, i) ==
    /\ d.k # NULL
    /\ IF isInt THEN PgMod(d.k, sc) = i
       ELSE PgMod(PgAbs(HashText(d.k)), sc) = i

\* the dep's primary key, and the whole row when it has none
PkOf(r) == r.id
WholeRow(r) == r
KeyOf(keys, r) == IF keys = "pk" THEN PkOf(r) ELSE WholeRow(r)
\* DistinctOn as a plain SELECT d.* would compute it: nothing is removed
DistinctOnNoDedup(rows, keys) == rows
\* SELECT DISTINCT ON (keys) d.* ... ORDER BY keys: one row per key tuple
DistinctOn(rows, keys) ==
    SetToBag({CHOOSE r \in DOMAIN rows : KeyOf(keys, r) = v :
                v \in {KeyOf(keys, r) : r \in DOMAIN rows}})

SourceLists ==
    {<<"selection">>, <<"parent">>, <<"selection", "parent">>,
     <<"parent", "parent">>, <<"parent", "selection">>, <<"other">>}

DepCfg(form, distinct, hasPk, sources, count, isInt, rows) ==
    [form |-> form, distinct |-> distinct, hasPk |-> hasPk,
     sources |-> sources, count |-> count, isInt |-> isInt, rows |-> rows]
DepCfgs ==
    {DepCfg("simple", d, pk, <<>>, 0, TRUE, r) :
        d \in BOOLEAN, pk \in BOOLEAN, r \in SrcDepTables}
    \cup {DepCfg("pk_mod", d, TRUE, <<>>, c, int, r) :
            d \in BOOLEAN, c \in 2..MaxCount, int \in BOOLEAN,
            r \in SrcDepTables}
    \cup {DepCfg("sources", d, TRUE, ss, 0, TRUE, r) :
            d \in BOOLEAN, ss \in SourceLists, r \in SrcDepTables}

SrcDep == SetToBag(cfg.dep.rows)
PmshIdx == 0..(cfg.dep.count - 1)
AfterDep == IF cfg.dep.distinct THEN "distinct" ELSE "finalize"

\* simple form: CREATE UNLOGGED TABLE dst.<dep> AS SELECT d.* ... JOIN parent
DepSimple ==
    /\ pc = "dep"
    /\ cfg.dep.form = "simple"
    /\ dstDep' = Unlogged(JoinBag(SrcDep, dstRoot.rows, "join"))
    /\ pc' = AfterDep
    /\ UNCHANGED <<pre, con, idx, opsVars, runVars>>
    /\ UNCHANGED <<cfg, srcNo, selections, selsrc, rootSh, depSh, dstRoot, done,
                   created, usedShards>>

\* _build_pmsh(i): shards_schema.<dep>_pmsh<i>
DepBuildPmsh(i) ==
    /\ pc = "dep"
    /\ cfg.dep.form = "pk_mod"
    /\ i \in PmshIdx \ done
    /\ LET part == [d \in {x \in DOMAIN SrcDep :
                            PmshPred(x, cfg.dep.isInt, cfg.dep.count, i)}
                      |-> SrcDep[d]]
       IN depSh' = [k \in DOMAIN depSh \cup {i} |->
                      IF k = i
                      THEN Unlogged(JoinBag(part, dstRoot.rows, "join"))
                      ELSE depSh[k]]
    /\ done' = done \cup {i}
    /\ UNCHANGED <<pre, con, idx, opsVars, runVars>>
    /\ UNCHANGED <<cfg, srcNo, selections, selsrc, rootSh, dstRoot, dstDep, pc,
                   created, usedShards>>

\* after the gather: DROP TABLE IF EXISTS, CREATE UNLOGGED TABLE (LIKE ...)
DepCreatePmsh ==
    /\ pc = "dep"
    /\ cfg.dep.form = "pk_mod"
    /\ done = PmshIdx
    /\ dstDep' = Unlogged(EmptyBag)
    /\ pc' = "dep_insert"
    /\ done' = {}
    /\ UNCHANGED <<pre, con, idx, opsVars, runVars>>
    /\ UNCHANGED <<cfg, srcNo, selections, selsrc, rootSh, depSh, dstRoot, created,
                   usedShards>>

\* _insert_pmsh(i): INSERT INTO dst.<dep> SELECT * FROM <dep>_pmsh<i>
DepInsertPmsh(i) ==
    /\ pc = "dep_insert"
    /\ i \in PmshIdx \ done
    /\ dstDep' = [dstDep EXCEPT !.rows = @ (+) depSh[i].rows]
    /\ done' = IF done \cup {i} = PmshIdx THEN {} ELSE done \cup {i}
    /\ pc' = IF done \cup {i} = PmshIdx THEN AfterDep ELSE pc
    /\ UNCHANGED <<pre, con, idx, opsVars, runVars>>
    /\ UNCHANGED <<cfg, srcNo, selections, selsrc, rootSh, depSh, dstRoot, created,
                   usedShards>>

\* multi-source form: DROP TABLE IF EXISTS, CREATE UNLOGGED TABLE (LIKE ...)
DepCreateSources ==
    /\ pc = "dep"
    /\ cfg.dep.form = "sources"
    /\ dstDep' = Unlogged(EmptyBag)
    /\ pc' = "source"
    /\ srcNo' = 1
    /\ done' = {}
    /\ UNCHANGED <<pre, con, idx, opsVars, runVars>>
    /\ UNCHANGED <<cfg, selections, selsrc, rootSh, depSh, dstRoot, created,
                   usedShards>>

AtSource == pc = "source"
\* a source is fanned out over the root's shard count when the group's root
\* selection is sharded and, for a source naming a selection, that
\* selection's root carries a shard block
FannedOut(n) ==
    /\ Sharded(cfg.root)
    /\ cfg.dep.sources[n] = "other" => selsrc.other.shard
\* the whole of the selection a source names
SourceSql(n) ==
    IF cfg.dep.sources[n] = "other" THEN selsrc.other.sql ELSE selsrc.sql
\* the shard sub-queries of the selection a source names
SourceShards(n) ==
    IF cfg.dep.sources[n] = "other" THEN selsrc.other.shards
    ELSE selsrc.shards
\* the position after source number n is done
AfterSource(n) == IF n = Len(cfg.dep.sources) THEN AfterDep ELSE "source"

\* one source, not fanned out: a single INSERT ... SELECT d.* ... JOIN
DepInsertSource ==
    /\ AtSource
    /\ ~FannedOut(srcNo)
    /\ LET n == srcNo
           parent == IF cfg.dep.sources[n] \in {"selection", "other"}
                     THEN SeqToBag(EvalSql(SourceSql(n)))
                     ELSE dstRoot.rows
       IN /\ dstDep' = [dstDep EXCEPT
                          !.rows = @ (+) JoinBag(SrcDep, parent, "join")]
          /\ pc' = AfterSource(n)
          /\ srcNo' = n + 1
    /\ UNCHANGED <<pre, con, idx, opsVars, runVars>>
    /\ UNCHANGED <<cfg, selections, selsrc, rootSh, depSh, dstRoot, done,
                   created, usedShards>>

\* one source fanned out over the root's shards: _ins_one(i) joins shard
\* sub-query i (a selection source) or <root>_sh<i> (a parent source)
DepInsertSourceShard(i) ==
    /\ AtSource
    /\ FannedOut(srcNo)
    /\ i \in ShardIdx \ done
    /\ LET n == srcNo
           parent == IF cfg.dep.sources[n] \in {"selection", "other"}
                     THEN IF i \in DOMAIN SourceShards(n)
                          THEN SeqToBag(EvalSql(SourceShards(n)[i]))
                          ELSE EmptyBag
                     ELSE rootSh[i].rows
       IN /\ dstDep' = [dstDep EXCEPT
                          !.rows = @ (+) JoinBag(SrcDep, parent, "join")]
          /\ done' = IF done \cup {i} = ShardIdx THEN {} ELSE done \cup {i}
          /\ pc' = IF done \cup {i} = ShardIdx THEN AfterSource(n) ELSE pc
          /\ srcNo' = IF done \cup {i} = ShardIdx THEN n + 1 ELSE n
    /\ UNCHANGED <<pre, con, idx, opsVars, runVars>>
    /\ UNCHANGED <<cfg, selections, selsrc, rootSh, depSh, dstRoot, created,
                   usedShards>>

\* distinct post-processing: replace the contents by one row per key
DepDistinct ==
    /\ pc = "distinct"
    /\ dstDep' = [dstDep EXCEPT
                    !.rows = IF cfg.dep.hasPk THEN DistinctOn(@, "pk")
                             ELSE DistinctOn(@, "row")]
    /\ pc' = "finalize"
    /\ UNCHANGED <<pre, con, idx, opsVars, runVars>>
    /\ UNCHANGED <<cfg, srcNo, selections, selsrc, rootSh, depSh, dstRoot, done,
                   created, usedShards>>

\* finalization of the dep: ANALYZE, SET LOGGED, add the source primary key
FinalizeDep ==
    /\ pc = "finalize"
    /\ Len(created) = 1
    /\ IF ~cfg.dep.hasPk
       THEN /\ dstDep' = [dstDep EXCEPT !.logged = TRUE]
            /\ created' = Append(created, "dep")
            /\ pc' = "cleanup"
       ELSE IF PkAddable(dstDep)
       THEN /\ dstDep' = [dstDep EXCEPT !.logged = TRUE, !.pk = TRUE]
            /\ created' = Append(created, "dep")
            /\ pc' = "cleanup"
       ELSE /\ dstDep' = [dstDep EXCEPT !.logged = TRUE]
            /\ created' = created
            /\ pc' = "error"
    /\ UNCHANGED <<pre, con, idx, opsVars, runVars>>
    /\ UNCHANGED <<cfg, srcNo, selections, selsrc, rootSh, depSh, dstRoot, done,
                   usedShards>>

\* Sub-queries a parent selection may register (list mode, no ensure list).
ParentSels == {<<>>, <<1>>, <<1, 2>>, <<1, 1>>}

\* run_families entered with the selection sources build_selections left
DepsInit ==
    /\ \E rows \in ParentSels, c \in {0} \cup 2..MaxCount, d \in DepCfgs,
          o \in OtherSels \cup {NoOther} :
        LET root == RootCfg("list", rows, <<>>, TRUE,
                            [count |-> c, strategy |-> "round_robin",
                             hasWeights |-> FALSE, weights |-> <<>>])
            r == SelectIds(root)
            lists == ShardLists(r[1], root)
        IN /\ cfg = [root |-> root, dep |-> d]
           /\ selections = r[1]
           /\ (d.form = "sources" /\ InSeq("other", d.sources)) <=> o # NoOther
           /\ selsrc = [sql |-> r[2], other |-> o,
                        shards |-> IF c > 1
                                   THEN [k \in 0..(c - 1) |-> ValuesSql(lists[k])]
                                   ELSE <<>>]
    /\ rootSh = NoShards
    /\ depSh = NoShards
    /\ dstRoot = Absent
    /\ dstDep = Absent
    /\ pc = "root"
    /\ done = {}
    /\ created = <<>>
    /\ srcNo = 0
    /\ usedShards = FALSE
    /\ RunIdle
    /\ pre = Idle /\ con = Idle /\ idx = Idle /\ OpsIdle

Next ==
    \/ BuildSelections
    \/ RootSimple
    \/ \E i \in 0..(MaxCount - 1) : RootBuildShard(i)
    \/ RootCreate
    \/ \E i \in 0..(MaxCount - 1) : RootInsertShard(i)
    \/ FinalizeRoot
    \/ Cleanup

Spec == EngInit /\ [][Next]_vars

NextDeps ==
    \/ RootSimple
    \/ \E i \in 0..(MaxCount - 1) : RootBuildShard(i)
    \/ RootCreate
    \/ \E i \in 0..(MaxCount - 1) : RootInsertShard(i)
    \/ DepSimple
    \/ \E i \in 0..(MaxCount - 1) : DepBuildPmsh(i)
    \/ DepCreatePmsh
    \/ \E i \in 0..(MaxCount - 1) : DepInsertPmsh(i)
    \/ DepCreateSources
    \/ DepInsertSource
    \/ \E i \in 0..(MaxCount - 1) : DepInsertSourceShard(i)
    \/ DepDistinct
    \/ FinalizeRoot
    \/ FinalizeDep
    \/ Cleanup

SpecDeps == DepsInit /\ [][NextDeps]_vars

\* --------------------------------------------------------------- precopy

\* The engine at rest while another stage of the tool runs.
EngIdle ==
    /\ cfg = [root |-> NoDep, dep |-> NoDep]
    /\ selections = <<>>
    /\ selsrc = [sql |-> FalseSql, shards |-> <<>>, other |-> NoOther]
    /\ rootSh = NoShards
    /\ depSh = NoShards
    /\ dstRoot = Absent
    /\ dstDep = Absent
    /\ pc = "idle"
    /\ done = {}
    /\ created = <<>>
    /\ srcNo = 0
    /\ usedShards = FALSE

MaxPreRows == 2
\* par = max(1, int(fanout_parallel or 8))
Par == 8
PreTables == {"coupon", "shipment"}
\* a source table: its rows and whether it has a primary key; a listed
\* table may be missing from the source schema
PreSrcTables ==
    {[exists |-> TRUE, rows |-> SetToBag(1..n), pk |-> p] :
        n \in 0..MaxPreRows, p \in BOOLEAN}
    \cup {[exists |-> FALSE, rows |-> EmptyBag, pk |-> FALSE]}
\* a destination table before the run: absent, or left by an earlier run or
\* by hand, UNLOGGED or LOGGED, with or without its key, with any rows
PreDstTables ==
    {Absent}
    \cup {[exists |-> TRUE, rows |-> r, logged |-> l, pk |-> p] :
            r \in {EmptyBag, SetToBag({1})}, l \in BOOLEAN, p \in BOOLEAN}
    \cup {[exists |-> TRUE, rows |-> (1 :> 2), logged |-> l, pk |-> FALSE] :
            l \in BOOLEAN}

\* CREATE TABLE dst.t (LIKE src.t INCLUDING DEFAULTS): empty and LOGGED
SchemaOnlyTable == [exists |-> TRUE, rows |-> EmptyBag, logged |-> TRUE,
                    pk |-> FALSE]
\* INSERT INTO dst.t SELECT * FROM src.t, as a statement that copies nothing
FullCopyRowsNone(src) == EmptyBag
\* INSERT INTO dst.t SELECT * FROM src.t
FullCopyRows(src) == src.rows

PreRunning == {t \in PreTables : pre.task[t] \notin {"none", "start", "ok", "err"}}
PreFinished == \A t \in PreTables : pre.task[t] \in {"none", "ok", "err"}
PreTasks(list) == [t \in PreTables |-> IF t \in list THEN "start" ELSE "none"]

PreInit ==
    /\ EngIdle
    /\ RunIdle
    /\ con = Idle /\ idx = Idle /\ OpsIdle
    /\ \E so \in SUBSET PreTables, fc \in SUBSET PreTables,
          src \in [PreTables -> PreSrcTables],
          dst \in [PreTables -> PreDstTables] :
         pre = [stage |-> "so", so |-> so, fc |-> fc, src |-> src,
                init |-> dst, dst |-> dst, task |-> PreTasks(so),
                createdSo |-> {}, createdFc |-> {}, ended |-> {}]

\* _schema_only(table): the existence test and CREATE TABLE ... LIKE, which
\* fails when the source table is missing; _bounded records the exception
SchemaOnlyStart(t) ==
    /\ pre.stage = "so" /\ pre.task[t] = "start"
    /\ Cardinality(PreRunning) < Par
    /\ pre' = IF pre.dst[t].exists
              THEN [pre EXCEPT !.task[t] = "ok"]
              ELSE IF ~pre.src[t].exists
              THEN [pre EXCEPT !.task[t] = "err"]
              ELSE [pre EXCEPT !.dst[t] = SchemaOnlyTable,
                               !.task[t] = "so_pk"]
    /\ UNCHANGED <<engVars, con, idx, opsVars, runVars>>

\* _schema_only(table): the source primary key, a failure rolled back
SchemaOnlyAddPk(t) ==
    /\ pre.task[t] = "so_pk"
    /\ pre' = [pre EXCEPT
                 !.dst[t].pk = pre.src[t].pk /\ PkAddable(pre.dst[t]),
                 !.task[t] = "ok",
                 !.createdSo = @ \cup {t}]
    /\ UNCHANGED <<engVars, con, idx, opsVars, runVars>>

\* _full_copy(table): the existence test; SET LOGGED for a table found
\* UNLOGGED, nothing for one found LOGGED, else the UNLOGGED clone and the
\* bulk insert in one transaction
FullCopyStart(t) ==
    /\ pre.stage = "fc" /\ pre.task[t] = "start"
    /\ Cardinality(PreRunning) < Par
    /\ pre' = IF pre.dst[t].exists
              THEN IF ~pre.dst[t].logged
                   THEN [pre EXCEPT !.dst[t].logged = TRUE,
                                    !.task[t] = "fc_haspk"]
                   ELSE [pre EXCEPT !.task[t] = "ok"]
              ELSE IF ~pre.src[t].exists
              THEN [pre EXCEPT !.task[t] = "err"]
              ELSE [pre EXCEPT !.dst[t] = Unlogged(FullCopyRows(pre.src[t])),
                               !.task[t] = "fc_logged"]
    /\ UNCHANGED <<engVars, con, idx, opsVars, runVars>>

\* _full_copy(table), table found UNLOGGED: add the source key if missing;
\* a failure is rolled back and raised
FullCopyEnsurePk(t) ==
    /\ pre.task[t] = "fc_haspk"
    /\ pre' = IF ~pre.dst[t].pk /\ pre.src[t].pk
              THEN IF PkAddable(pre.dst[t])
                   THEN [pre EXCEPT !.dst[t].pk = TRUE, !.task[t] = "ok"]
                   ELSE [pre EXCEPT !.task[t] = "err"]
              ELSE [pre EXCEPT !.task[t] = "ok"]
    /\ UNCHANGED <<engVars, con, idx, opsVars, runVars>>

\* _full_copy(table), new table: SET LOGGED
FullCopySetLogged(t) ==
    /\ pre.task[t] = "fc_logged"
    /\ pre' = [pre EXCEPT !.dst[t].logged = TRUE, !.task[t] = "fc_pk"]
    /\ UNCHANGED <<engVars, con, idx, opsVars, runVars>>

\* _full_copy(table), new table: the source primary key, a failure rolled
\* back
FullCopyAddPk(t) ==
    /\ pre.task[t] = "fc_pk"
    /\ pre' = [pre EXCEPT
                 !.dst[t].pk = pre.src[t].pk /\ PkAddable(pre.dst[t]),
                 !.task[t] = "ok",
                 !.createdFc = @ \cup {t}]
    /\ UNCHANGED <<engVars, con, idx, opsVars, runVars>>

\* asyncio.run(_runner(so_list, _schema_only)) has returned: on to full_copy
PrecopyFullCopy ==
    /\ pre.stage = "so" /\ PreFinished
    /\ \A t \in PreTables : pre.task[t] # "err"
    /\ pre' = [pre EXCEPT !.stage = "fc", !.task = PreTasks(pre.fc),
                          !.ended = @ \cup {"so"}]
    /\ UNCHANGED <<engVars, con, idx, opsVars, runVars>>

\* _runner: raise errors[0] once every task has ended
PrecopyRaise ==
    /\ pre.stage \in {"so", "fc"} /\ PreFinished
    /\ \E t \in PreTables : pre.task[t] = "err"
    /\ pre' = [pre EXCEPT !.stage = "error", !.ended = @ \cup {pre.stage}]
    /\ UNCHANGED <<engVars, con, idx, opsVars, runVars>>

\* migrate_precopy returns the created tables
PrecopyReturn ==
    /\ pre.stage = "fc" /\ PreFinished
    /\ \A t \in PreTables : pre.task[t] # "err"
    /\ pre' = [pre EXCEPT !.stage = "done", !.ended = @ \cup {"fc"}]
    /\ UNCHANGED <<engVars, con, idx, opsVars, runVars>>

NextPrecopy ==
    \/ \E t \in PreTables : SchemaOnlyStart(t)
    \/ \E t \in PreTables : SchemaOnlyAddPk(t)
    \/ \E t \in PreTables : FullCopyStart(t)
    \/ \E t \in PreTables : FullCopyEnsurePk(t)
    \/ \E t \in PreTables : FullCopySetLogged(t)
    \/ \E t \in PreTables : FullCopyAddPk(t)
    \/ PrecopyFullCopy
    \/ PrecopyRaise
    \/ PrecopyReturn

SpecPrecopy == PreInit /\ [][NextPrecopy]_vars

\* ----------------------------------------------------------- constraints

\* list_tables_in_schema(src_schema), ORDER BY table_name: "child" carries
\* the constraints and references "parent", which is in the destination
\* with its primary key
ConTables == <<"child", "parent">>
\* constraint names in ORDER BY conname order; an index of the same name
\* lives in the schema's relation namespace
ConNames == <<"k1", "k2">>
ConNameSet == Range(ConNames)
\* the kinds in the order mirror_all_constraints walks them
Kinds == <<"u", "c", "x", "f">>

\* a constraint as pg_constraint has it: contype, the definition body, and
\* for a foreign key convalidated
NoCon == [kind |-> "none", body |-> "", deferrable |-> FALSE, valid |-> TRUE]
Uniq(col, d) == [kind |-> "u", body |-> col, deferrable |-> d, valid |-> TRUE]
Check == [kind |-> "c", body |-> "a > 0", deferrable |-> FALSE, valid |-> TRUE]
Excl == [kind |-> "x", body |-> "a WITH =", deferrable |-> FALSE,
         valid |-> TRUE]
Fk(v) == [kind |-> "f", body |-> "a", deferrable |-> FALSE, valid |-> v]
\* a foreign key on the same column that references another key of "parent",
\* its primary key
FkOnPk(v) == [kind |-> "f", body |-> "a to id", deferrable |-> FALSE,
              valid |-> v]
\* an index of the destination schema: plain, or owned by a constraint
NoIdx == [exists |-> FALSE, col |-> "", unique |-> FALSE, owned |-> FALSE]
Index(col, u, o) == [exists |-> TRUE, col |-> col, unique |-> u, owned |-> o]
BackingIndex(d) == Index(d.body, d.kind = "u", TRUE)

EmptyDb == [cons |-> [n \in ConNameSet |-> NoCon],
            idx |-> [n \in ConNameSet |-> NoIdx]]

\* ALTER TABLE ... ADD CONSTRAINT name defn succeeds when the table has no
\* constraint of that name and, for a kind that builds an index, the schema
\* has no relation of that name
CanAdd(db, n, d) ==
    /\ db.cons[n] = NoCon
    /\ d.kind \in {"u", "x"} => ~db.idx[n].exists
AddConstraint(db, n, d) ==
    [cons |-> [db.cons EXCEPT ![n] = d],
     idx |-> IF d.kind \in {"u", "x"}
             THEN [db.idx EXCEPT ![n] = BackingIndex(d)]
             ELSE db.idx]
\* ALTER TABLE ... DROP CONSTRAINT IF EXISTS name: its index goes with it
DropConstraint(db, n) ==
    IF db.cons[n] = NoCon THEN db
    ELSE [cons |-> [db.cons EXCEPT ![n] = NoCon],
          idx |-> IF db.idx[n].owned THEN [db.idx EXCEPT ![n] = NoIdx]
                  ELSE db.idx]
\* DROP INDEX IF EXISTS name fails for an index a constraint owns; the
\* failure is rolled back and ignored
DropIndexIfExists(db, n) ==
    IF db.idx[n].exists /\ ~db.idx[n].owned
    THEN [db EXCEPT !.idx[n] = NoIdx]
    ELSE db
\* ALTER TABLE ... ADD CONSTRAINT name UNIQUE USING INDEX name: the
\* constraint takes the index's columns
CanUseIndex(db, n) ==
    /\ db.cons[n] = NoCon
    /\ db.idx[n].exists /\ db.idx[n].unique /\ ~db.idx[n].owned
AddUsingIndex(db, n) ==
    [cons |-> [db.cons EXCEPT ![n] = Uniq(db.idx[n].col, FALSE)],
     idx |-> [db.idx EXCEPT ![n].owned = TRUE]]

IsUnique(d) == d.kind = "u"
IsDeferrable(d) == d.deferrable
\* _ensure_constraint: the result and the destination it leaves
EnsureConstraint(db, n, d) ==
    IF CanAdd(db, n, d)
    THEN [ok |-> TRUE, db |-> AddConstraint(db, n, d)]
    ELSE IF IsUnique(d) /\ IsDeferrable(d)
    THEN LET db1 == DropIndexIfExists(db, n)
         IN  IF CanAdd(db1, n, d)
             THEN [ok |-> TRUE, db |-> AddConstraint(db1, n, d)]
             ELSE [ok |-> FALSE, db |-> db1]
    ELSE IF IsUnique(d) /\ ~IsDeferrable(d) /\ db.idx[n].exists
              /\ CanUseIndex(db, n)
    THEN [ok |-> TRUE, db |-> AddUsingIndex(db, n)]
    ELSE [ok |-> FALSE, db |-> db]

\* the definition mirror_all_constraints adds: a foreign key as NOT VALID
AddText(d) == IF d.kind = "f" THEN [d EXCEPT !.valid = FALSE] ELSE d
\* src_norm: _canon of the rewritten source definition; _qualify_fk writes
\* the referenced table as "dst"."table"
SrcNorm(d) ==
    [kind |-> d.kind, body |-> d.body, deferrable |-> d.deferrable,
     ref |-> IF d.kind = "f" THEN "\"stage\".\"parent\"" ELSE ""]
\* dst_norm: _canon of pg_get_constraintdef's text, which writes the
\* referenced table as dst.table
DstNorm(d) ==
    [kind |-> d.kind, body |-> d.body, deferrable |-> d.deferrable,
     ref |-> IF d.kind = "f" THEN "stage.parent" ELSE ""]

NoCons == [n \in ConNameSet |-> NoCon]
\* positions 1..12: for each kind the replace, drop and add loops; 13 is the
\* foreign-key validation of the table
LastPos == 13
KindAt(p) == Kinds[((p - 1) \div 3) + 1]
LoopAt(p) == ((p - 1) % 3) + 1
LoopNames(src, snap, p) ==
    LET typ == KindAt(p)
    IN  CASE LoopAt(p) = 1 ->
               {n \in ConNameSet : /\ src[n].kind = typ /\ snap[n].kind = typ
                                   /\ SrcNorm(src[n]) # DstNorm(snap[n])}
          [] LoopAt(p) = 2 ->
               {n \in ConNameSet : snap[n].kind = typ /\ src[n].kind # typ}
          [] OTHER ->
               {n \in ConNameSet : src[n].kind = typ /\ snap[n].kind # typ}
RECURSIVE NextPos(_, _, _)
NextPos(src, snap, p) ==
    IF p + 1 >= LastPos THEN LastPos
    ELSE IF LoopNames(src, snap, p + 1) # {} THEN p + 1
    ELSE NextPos(src, snap, p + 1)

\* the source's constraints on "child", by name
ConSrcMaps ==
    [ConNameSet -> {NoCon, Uniq("a", FALSE), Uniq("a", TRUE), Check, Excl,
                    Fk(TRUE)}]
\* what the destination may hold under one name before the pass
ConDstRels ==
    {[con |-> NoCon, idx |-> i] :
        i \in {NoIdx, Index("a", TRUE, FALSE), Index("b", TRUE, FALSE),
               Index("a", FALSE, FALSE)}}
    \cup {[con |-> c, idx |-> BackingIndex(c)] :
            c \in {Uniq("a", FALSE), Uniq("b", FALSE)}}
    \cup {[con |-> c, idx |-> NoIdx] :
            c \in {Check, Fk(TRUE), Fk(FALSE), FkOnPk(TRUE)}}
ConDstDbs ==
    {[cons |-> [n \in ConNameSet |-> r[n].con],
      idx |-> [n \in ConNameSet |-> r[n].idx]] :
        r \in [ConNameSet -> ConDstRels]}

\* run_migrate_constraints: only_tables and validate_fk_tables are the
\* table named on the command line, or None for all
CliCalls ==
    {[via |-> "cli", onlyGiven |-> g[1], only |-> g[2],
      allowedGiven |-> g[1], allowed |-> g[2], validateFks |-> v] :
        g \in {<<FALSE, {}>>, <<TRUE, {"child"}>>, <<TRUE, {"parent"}>>},
        v \in BOOLEAN}
\* migrate_pipeline: validate_fk_tables is the list of tables run_families
\* created in this run, empty when every group was skipped
PipelineCalls ==
    {[via |-> "pipeline", onlyGiven |-> FALSE, only |-> {},
      allowedGiven |-> TRUE, allowed |-> c, validateFks |-> TRUE] :
        c \in {{}, {"child"}, {"child", "parent"}}}

\* the key of "parent" that the foreign keys of "child" reference in the
\* source, a primary key or a unique constraint, and whether the
\* destination's "parent" carries it
RefKeys == [kind : {"pk", "u"}, placed : BOOLEAN]
\* the constraint whose add made the pass raise, and the loop it was in
NoErr == [name |-> "", at |-> "none"]

ConInit ==
    /\ EngIdle
    /\ RunIdle
    /\ pre = Idle /\ idx = Idle /\ OpsIdle
    /\ \E call \in CliCalls \cup PipelineCalls, src \in ConSrcMaps,
          db \in ConDstDbs, inDst \in BOOLEAN, ok \in BOOLEAN,
          ref \in RefKeys :
         \* a table the builder has just created has its rows and nothing
         \* else; an absent table has no constraints
         /\ (call.via = "pipeline" /\ "child" \in call.allowed)
                => inDst /\ db = EmptyDb
         /\ ~inDst => db = EmptyDb
         \* a foreign key cannot outlive the key it references
         /\ (\E n \in ConNameSet : db.cons[n] \in {Fk(TRUE), Fk(FALSE)})
                => ref.placed
         /\ con = [stage |-> "start", call |-> call, src |-> src, db |-> db,
                   childInDst |-> inDst, fkOk |-> ok, queue |-> ConTables,
                   tbl |-> "", snap |-> NoCons, pos |-> 0, todo |-> {},
                   vq |-> <<>>, refKey |-> ref, err |-> NoErr]

ConSrcOf(t) == IF t = "child" THEN con.src ELSE NoCons
ConDstOf(t) == IF t = "child" THEN con.db.cons ELSE NoCons
ConInDst(t) == IF t = "child" THEN con.childInDst ELSE TRUE
ConSkipped(t) ==
    \/ con.call.onlyGiven /\ t \notin con.call.only
    \/ ~ConInDst(t)

\* the position after p and the names its loop walks
ConAdvance(c, p) ==
    LET q == NextPos(ConSrcOf(c.tbl), c.snap, p)
    IN  [c EXCEPT !.pos = q,
                  !.todo = IF q = LastPos THEN {}
                           ELSE LoopNames(ConSrcOf(c.tbl), c.snap, q)]
ConStep(c, n) ==
    IF c.todo = {n} THEN ConAdvance([c EXCEPT !.todo = {}], c.pos)
    ELSE [c EXCEPT !.todo = @ \ {n}]

\* ADD CONSTRAINT of a foreign key fails while the referenced table has no
\* primary key or unique constraint on the referenced columns, and
\* _ensure_constraint has no recovery for a foreign key
MirrorEnsure(db, n, d) ==
    IF d.kind = "f" /\ ~con.refKey.placed THEN [ok |-> FALSE, db |-> db]
    ELSE EnsureConstraint(db, n, d)

\* mirror_all_constraints: migrate_primary_keys adds every missing primary
\* key, then the table loop
MirrorStart ==
    /\ con.stage = "start"
    /\ con' = [con EXCEPT !.stage = "table",
                          !.refKey.placed = @ \/ con.refKey.kind = "pk"]
    /\ UNCHANGED <<engVars, pre, idx, opsVars, runVars>>

\* a table outside only_tables, or absent from the destination
SkipTable ==
    /\ con.stage = "table" /\ con.queue # <<>>
    /\ ConSkipped(Head(con.queue))
    /\ con' = [con EXCEPT !.queue = Tail(@)]
    /\ UNCHANGED <<engVars, pre, idx, opsVars, runVars>>

\* _fetch_constraints_map of both schemas for the next table
FetchMaps ==
    /\ con.stage = "table" /\ con.queue # <<>>
    /\ ~ConSkipped(Head(con.queue))
    /\ LET t == Head(con.queue)
       IN  con' = ConAdvance([con EXCEPT !.stage = "kinds", !.tbl = t,
                                         !.snap = ConDstOf(t)], 0)
    /\ UNCHANGED <<engVars, pre, idx, opsVars, runVars>>

\* a name in both maps whose definitions differ: drop, then add the source
\* definition; a failure is fatal
ReplaceConstraint(n) ==
    /\ con.stage = "kinds" /\ con.pos < LastPos /\ LoopAt(con.pos) = 1
    /\ n \in con.todo
    /\ LET r == MirrorEnsure(DropConstraint(con.db, n), n,
                             AddText(con.src[n]))
       IN  con' = IF r.ok THEN ConStep([con EXCEPT !.db = r.db], n)
                  ELSE [con EXCEPT !.db = r.db, !.stage = "error",
                                   !.err = [name |-> n, at |-> "replace"]]
    /\ UNCHANGED <<engVars, pre, idx, opsVars, runVars>>

\* a name only in the destination: drop
DropExtra(n) ==
    /\ con.stage = "kinds" /\ con.pos < LastPos /\ LoopAt(con.pos) = 2
    /\ n \in con.todo
    /\ con' = ConStep([con EXCEPT !.db = DropConstraint(con.db, n)], n)
    /\ UNCHANGED <<engVars, pre, idx, opsVars, runVars>>

\* a name only in the source: add; a failure is fatal
AddMissing(n) ==
    /\ con.stage = "kinds" /\ con.pos < LastPos /\ LoopAt(con.pos) = 3
    /\ n \in con.todo
    /\ LET r == MirrorEnsure(con.db, n, AddText(con.src[n]))
       IN  con' = IF r.ok THEN ConStep([con EXCEPT !.db = r.db], n)
                  ELSE [con EXCEPT !.db = r.db, !.stage = "error",
                                   !.err = [name |-> n, at |-> "add"]]
    /\ UNCHANGED <<engVars, pre, idx, opsVars, runVars>>

\* the table's foreign keys with convalidated = false, filtered by
\* validate_fk_tables; none when validate_fks is off
UnvalidatedFks(t) ==
    IF /\ con.call.validateFks
       /\ con.call.allowedGiven => t \in con.call.allowed
    THEN SelectSeq(ConNames, LAMBDA n : /\ ConDstOf(t)[n].kind = "f"
                                        /\ ~ConDstOf(t)[n].valid)
    ELSE <<>>
\* the add loop of kind "u" on "parent": the unique constraint the foreign
\* keys of "child" reference is only in the source, and is added
AddReferencedKey ==
    /\ con.stage = "kinds" /\ con.tbl = "parent"
    /\ con.refKey.kind = "u" /\ ~con.refKey.placed
    /\ con' = [con EXCEPT !.refKey.placed = TRUE]
    /\ UNCHANGED <<engVars, pre, idx, opsVars, runVars>>

CollectFks ==
    /\ con.stage = "kinds" /\ con.pos = LastPos
    /\ con.tbl = "parent" => con.refKey.placed
    /\ LET fks == UnvalidatedFks(con.tbl)
       IN  con' = IF fks = <<>>
                  THEN [con EXCEPT !.stage = "table", !.queue = Tail(@)]
                  ELSE [con EXCEPT !.stage = "validate", !.vq = fks]
    /\ UNCHANGED <<engVars, pre, idx, opsVars, runVars>>

\* ALTER TABLE ... VALIDATE CONSTRAINT, one name after the other on the
\* table's connection; it fails when a row has no referenced row
ValidateOne ==
    /\ con.stage = "validate" /\ con.vq # <<>>
    /\ LET n == Head(con.vq)
       IN  con' = IF ~con.fkOk THEN [con EXCEPT !.stage = "error"]
                  ELSE IF Len(con.vq) = 1
                  THEN [con EXCEPT !.db.cons[n].valid = TRUE, !.vq = <<>>,
                                   !.stage = "table", !.queue = Tail(@)]
                  ELSE [con EXCEPT !.db.cons[n].valid = TRUE,
                                   !.vq = Tail(@)]
    /\ UNCHANGED <<engVars, pre, idx, opsVars, runVars>>

\* every table walked: the counts are returned
MirrorReturn ==
    /\ con.stage = "table" /\ con.queue = <<>>
    /\ con' = [con EXCEPT !.stage = "done"]
    /\ UNCHANGED <<engVars, pre, idx, opsVars, runVars>>

NextCons ==
    \/ MirrorStart
    \/ SkipTable
    \/ FetchMaps
    \/ \E n \in ConNameSet : ReplaceConstraint(n)
    \/ \E n \in ConNameSet : DropExtra(n)
    \/ \E n \in ConNameSet : AddMissing(n)
    \/ AddReferencedKey
    \/ CollectFks
    \/ ValidateOne
    \/ MirrorReturn

SpecCons == ConInit /\ [][NextCons]_vars

\* --------------------------------------------------------------- indexes

\* index names of one table, in ORDER BY indexname order; none ends in _pkey
IdxNames == <<"i1", "i2">>
IdxNameSet == Range(IdxNames)
\* what a name of the schema's relation namespace holds: nothing, an index
\* of the table (plain, or owned by a unique constraint), or a relation that
\* is not an index of the table
NoIndex == [kind |-> "none", col |-> "", unique |-> FALSE]
PlainIndex(col, u) == [kind |-> "plain", col |-> col, unique |-> u]
OwnedIndex(col) == [kind |-> "owned", col |-> col, unique |-> TRUE]
Elsewhere == [kind |-> "elsewhere", col |-> "", unique |-> FALSE]
OnTable(r) == r.kind \in {"plain", "owned"}

IdxSrcMaps ==
    [IdxNameSet -> {NoIndex, PlainIndex("a", FALSE), PlainIndex("a", TRUE),
                    PlainIndex("b", FALSE)}]
IdxDstMaps ==
    [IdxNameSet -> {NoIndex, PlainIndex("a", FALSE), PlainIndex("a", TRUE),
                    PlainIndex("b", FALSE), OwnedIndex("a"), OwnedIndex("b"),
                    Elsewhere}]

\* _fetch_indexes: the table's rows of pg_indexes
FetchIndexes(m) == {n \in IdxNameSet : OnTable(m[n])}
\* _norm_for_compare(_prepare_indexdef_for_dst(src def)): the table is
\* written ON "dst"."table"
SrcIdxNorm(n, d) ==
    [name |-> n, col |-> d.col, unique |-> d.unique,
     on |-> "\"stage\".\"t\""]
\* _norm_for_compare(dst def): pg_indexes writes ON dst.table
DstIdxNorm(n, d) ==
    [name |-> n, col |-> d.col, unique |-> d.unique, on |-> "stage.t"]

\* CREATE [UNIQUE] INDEX "name" ON "dst"."table" ...; it fails when the
\* schema has a relation of that name or the rows are not unique, and the
\* failure is rolled back and ignored
CreateIndex(dst, n, d, uniqueOk) ==
    IF dst[n] = NoIndex /\ (d.unique => uniqueOk)
    THEN [dst EXCEPT ![n] = PlainIndex(d.col, d.unique)]
    ELSE dst
\* DROP INDEX IF EXISTS "dst"."name"; it fails for an index a constraint
\* owns and for a relation that is no index, and the failure is rolled back
\* and ignored
DropIndex(dst, n) ==
    IF dst[n].kind = "plain" THEN [dst EXCEPT ![n] = NoIndex] ELSE dst

\* the names each of the three loops walks, from the maps fetched at entry
IdxLoop(src, snap, stage) ==
    CASE stage = "create" ->
           SelectSeq(IdxNames, LAMBDA n : OnTable(src[n]) /\ n \notin snap)
      [] stage = "recreate" ->
           SelectSeq(IdxNames,
                     LAMBDA n : /\ OnTable(src[n]) /\ n \in snap)
      [] OTHER ->
           SelectSeq(IdxNames, LAMBDA n : ~OnTable(src[n]) /\ n \in snap)
IdxAfter(stage) ==
    CASE stage = "fetch" -> "create"
      [] stage = "create" -> "recreate"
      [] stage = "recreate" -> "drop"
      [] OTHER -> "return"
RECURSIVE IdxAdvance(_, _)
IdxAdvance(s, stage) ==
    LET nxt == IdxAfter(stage)
    IN  IF nxt = "return" THEN [s EXCEPT !.stage = "return", !.todo = {}]
        ELSE IF IdxLoop(s.src, s.snap, nxt) # <<>>
        THEN [s EXCEPT !.stage = nxt,
                       !.todo = Range(IdxLoop(s.src, s.snap, nxt))]
        ELSE IdxAdvance(s, nxt)
IdxStep(s, n) ==
    IF s.todo = {n} THEN IdxAdvance(s, s.stage)
    ELSE [s EXCEPT !.todo = @ \ {n}]
\* the source map is walked in dictionary order, the two name sets in any
IdxPick(n) ==
    /\ n \in idx.todo
    /\ idx.stage = "create"
          => \A i, j \in DOMAIN IdxNames :
                (IdxNames[i] = n /\ IdxNames[j] \in idx.todo) => i <= j

IdxInit ==
    /\ EngIdle
    /\ RunIdle
    /\ pre = Idle /\ con = Idle /\ OpsIdle
    /\ \E src \in IdxSrcMaps, dst \in IdxDstMaps, inSrc \in BOOLEAN,
          inDst \in BOOLEAN, ok \in BOOLEAN :
         /\ ~inSrc => src = [n \in IdxNameSet |-> NoIndex]
         /\ ~inDst => \A n \in IdxNameSet : ~OnTable(dst[n])
         /\ idx = [stage |-> "start", src |-> src, dst |-> dst,
                   inSrc |-> inSrc, inDst |-> inDst, uniqueOk |-> ok,
                   snap |-> {}, todo |-> {}, created |-> 0, dropped |-> 0]

\* reconcile_table_indexes on a table missing from either schema
IdxSkip ==
    /\ idx.stage = "start"
    /\ ~idx.inSrc \/ ~idx.inDst
    /\ idx' = [idx EXCEPT !.stage = "done"]
    /\ UNCHANGED <<engVars, pre, con, opsVars, runVars>>

\* _fetch_indexes of both schemas
IdxFetch ==
    /\ idx.stage = "start"
    /\ idx.inSrc /\ idx.inDst
    /\ idx' = IdxAdvance([idx EXCEPT !.snap = FetchIndexes(idx.dst)],
                         "fetch")
    /\ UNCHANGED <<engVars, pre, con, opsVars, runVars>>

\* a source index missing from the destination: create
IdxCreateMissing(n) ==
    /\ idx.stage = "create" /\ IdxPick(n)
    /\ LET d == CreateIndex(idx.dst, n, idx.src[n], idx.uniqueOk)
       IN  idx' = IdxStep([idx EXCEPT !.dst = d,
                             !.created = IF d # idx.dst THEN @ + 1 ELSE @],
                          n)
    /\ UNCHANGED <<engVars, pre, con, opsVars, runVars>>

\* a name in both maps whose normalized definitions differ: drop, create
IdxRecreate(n) ==
    /\ idx.stage = "recreate" /\ IdxPick(n)
    /\ idx' =
         IF SrcIdxNorm(n, idx.src[n]) # DstIdxNorm(n, idx.dst[n])
         THEN LET d1 == DropIndex(idx.dst, n)
                  d2 == CreateIndex(d1, n, idx.src[n], idx.uniqueOk)
              IN  IdxStep([idx EXCEPT !.dst = d2,
                             !.created = IF d2 # d1 THEN @ + 1 ELSE @], n)
         ELSE IdxStep(idx, n)
    /\ UNCHANGED <<engVars, pre, con, opsVars, runVars>>

\* a destination index missing from the source: drop
IdxDropExtra(n) ==
    /\ idx.stage = "drop" /\ IdxPick(n)
    /\ LET d == DropIndex(idx.dst, n)
       IN  idx' = IdxStep([idx EXCEPT !.dst = d,
                             !.dropped = IF d # idx.dst THEN @ + 1 ELSE @],
                          n)
    /\ UNCHANGED <<engVars, pre, con, opsVars, runVars>>

\* the counts are returned
IdxReturn ==
    /\ idx.stage = "return"
    /\ idx' = [idx EXCEPT !.stage = "done"]
    /\ UNCHANGED <<engVars, pre, con, opsVars, runVars>>

NextIdx ==
    \/ IdxSkip
    \/ IdxFetch
    \/ \E n \in IdxNameSet : IdxCreateMissing(n)
    \/ \E n \in IdxNameSet : IdxRecreate(n)
    \/ \E n \in IdxNameSet : IdxDropExtra(n)
    \/ IdxReturn

SpecIdx == IdxInit /\ [][NextIdx]_vars

\* ------------------------------------------------------------- sequences

\* sequence names in the order of _list_sequences; columns of table "t"
SeqNames == <<"s1", "s2">>
SeqCols == {"t.a", "t.b"}
\* a sequence: last_value, is_called, increment_by, min_value and the
\* table.column that owns it ("none" when standalone)
NoSeq == [exists |-> FALSE, last |-> 0, called |-> FALSE, inc |-> 1,
          min |-> 1, owner |-> "none"]
Sequence(l, c, i, m, o) == [exists |-> TRUE, last |-> l, called |-> c,
                            inc |-> i, min |-> m, owner |-> o]
\* _fetch_seq_core: last_value if not called, else last_value + increment_by
SeqNext(s) == IF s.called THEN s.last + s.inc ELSE s.last
\* setval(seq, v, true), which leaves the sequence called
SetvalCalled(s, v) == [s EXCEPT !.last = v, !.called = TRUE]
\* setval(seq, v, false); PostgreSQL rejects a value below min_value
Setval(s, v) == [s EXCEPT !.last = v, !.called = FALSE]
SetvalOk(s, v) == v >= s.min
\* CREATE SEQUENCE IF NOT EXISTS "dst"."name": PostgreSQL's defaults
NewSequence == Sequence(1, FALSE, 1, 1, "none")
\* owned_src with its schema replaced by the destination schema
DesiredOwner(s) == s.owner

\* create_missing_sequence: create, setval, OWNED BY when the column exists
\* in the destination; ok is FALSE when setval raised
CreateMissingSequence(s, cols) ==
    IF ~SetvalOk(NewSequence, SeqNext(s))
    THEN [ok |-> FALSE, seq |-> NewSequence]
    ELSE [ok |-> TRUE,
          seq |-> [Setval(NewSequence, SeqNext(s)) EXCEPT
                     !.owner = IF DesiredOwner(s) \in cols
                               THEN DesiredOwner(s) ELSE "none"]]
\* the common-sequence step: setval when the next values differ, then OWNED
\* BY the desired column if it exists, OWNED BY NONE if none is desired
AlignSequence(s, d, cols) ==
    LET d1 == IF SeqNext(d) # SeqNext(s) THEN Setval(d, SeqNext(s)) ELSE d
        want == DesiredOwner(s)
    IN  IF SeqNext(d) # SeqNext(s) /\ ~SetvalOk(d, SeqNext(s))
        THEN [ok |-> FALSE, seq |-> d]
        ELSE [ok |-> TRUE,
              seq |-> IF want = d.owner THEN d1
                      ELSE IF want = "none" THEN [d1 EXCEPT !.owner = "none"]
                      ELSE IF want \in cols THEN [d1 EXCEPT !.owner = want]
                      ELSE d1]

SeqSrcs ==
    {NoSeq} \cup {Sequence(l, c, i, 0, o) :
                    l \in {0, 5}, c \in BOOLEAN, i \in {1, 2},
                    o \in {"none", "t.a"}}
SeqDsts ==
    {NoSeq} \cup {Sequence(6, c, 1, 1, o) :
                    c \in BOOLEAN, o \in {"none"} \cup SeqCols}
SeqInit ==
    /\ EngIdle
    /\ RunIdle
    /\ pre = Idle /\ con = Idle /\ idx = Idle
    /\ tg = Idle /\ nd = Idle /\ sw = Idle /\ pl = Idle
    /\ \E src \in [Range(SeqNames) -> SeqSrcs],
          dst \in [Range(SeqNames) -> SeqDsts], cols \in SUBSET SeqCols :
         /\ \A n \in Range(SeqNames) : dst[n].owner \in cols \cup {"none"}
         /\ sq = [stage |-> "start", src |-> src, dst |-> dst,
                  cols |-> cols, drop |-> <<>>, make |-> <<>>,
                  align |-> <<>>]

\* _list_sequences of both schemas and the three sorted name sets
SeqList ==
    /\ sq.stage = "start"
    /\ sq' = [sq EXCEPT
                !.stage = "run",
                !.drop = SelectSeq(SeqNames, LAMBDA n :
                            sq.dst[n].exists /\ ~sq.src[n].exists),
                !.make = SelectSeq(SeqNames, LAMBDA n :
                            sq.src[n].exists /\ ~sq.dst[n].exists),
                !.align = SelectSeq(SeqNames, LAMBDA n :
                            sq.src[n].exists /\ sq.dst[n].exists)]
    /\ UNCHANGED <<engVars, pre, con, idx, tg, nd, sw, pl, runVars>>

\* DROP SEQUENCE IF EXISTS ... CASCADE for a name only in the destination
SeqDropExtra ==
    /\ sq.stage = "run" /\ sq.drop # <<>>
    /\ sq' = [sq EXCEPT !.dst[Head(sq.drop)] = NoSeq, !.drop = Tail(@)]
    /\ UNCHANGED <<engVars, pre, con, idx, tg, nd, sw, pl, runVars>>

\* a name only in the source: create_missing_sequence
SeqCreateMissing ==
    /\ sq.stage = "run" /\ sq.drop = <<>> /\ sq.make # <<>>
    /\ LET n == Head(sq.make)
           r == CreateMissingSequence(sq.src[n], sq.cols)
       IN  sq' = [sq EXCEPT !.dst[n] = r.seq, !.make = Tail(@),
                            !.stage = IF r.ok THEN @ ELSE "error"]
    /\ UNCHANGED <<engVars, pre, con, idx, tg, nd, sw, pl, runVars>>

\* a name in both schemas: align next value and owner
SeqAlign ==
    /\ sq.stage = "run" /\ sq.drop = <<>> /\ sq.make = <<>>
    /\ sq.align # <<>>
    /\ LET n == Head(sq.align)
           r == AlignSequence(sq.src[n], sq.dst[n], sq.cols)
       IN  sq' = [sq EXCEPT !.dst[n] = r.seq, !.align = Tail(@),
                            !.stage = IF r.ok THEN @ ELSE "error"]
    /\ UNCHANGED <<engVars, pre, con, idx, tg, nd, sw, pl, runVars>>

\* the counts are returned
SeqReturn ==
    /\ sq.stage = "run" /\ sq.drop = <<>> /\ sq.make = <<>>
    /\ sq.align = <<>>
    /\ sq' = [sq EXCEPT !.stage = "done"]
    /\ UNCHANGED <<engVars, pre, con, idx, tg, nd, sw, pl, runVars>>

NextSeq ==
    \/ SeqList
    \/ SeqDropExtra
    \/ SeqCreateMissing
    \/ SeqAlign
    \/ SeqReturn

SpecSeq == SeqInit /\ [][NextSeq]_vars

\* -------------------------------------------------------------- triggers

\* trigger names of one table in ORDER BY tgname order
TrgNames == <<"t1", "t2">>
\* pg_get_triggerdef: the event, and the schema of the table and of the
\* trigger function
NoTrigger == [event |-> "none", schema |-> ""]
Trigger(e, s) == [event |-> e, schema |-> s]
\* _prepare_triggerdef_for_dst: ON "dst"."table", EXECUTE FUNCTION dst.<fn>
PrepareTriggerDef(d) == [d EXCEPT !.schema = "stage"]
\* CREATE TRIGGER fails when the table has a trigger of that name or the
\* function is missing from the destination; the failure is rolled back and
\* the loop continues
CreateTrigger(dst, n, d, fnOk) ==
    IF dst[n] = NoTrigger /\ fnOk THEN [dst EXCEPT ![n] = d] ELSE dst

TrgInit ==
    /\ EngIdle
    /\ RunIdle
    /\ pre = Idle /\ con = Idle /\ idx = Idle
    /\ sq = Idle /\ nd = Idle /\ sw = Idle /\ pl = Idle
    /\ \E src \in [Range(TrgNames) ->
                     {NoTrigger, Trigger("BEFORE UPDATE", "public"),
                      Trigger("BEFORE INSERT", "public")}],
          dst \in [Range(TrgNames) ->
                     {NoTrigger, Trigger("BEFORE UPDATE", "stage"),
                      Trigger("BEFORE INSERT", "stage")}],
          inSrc \in BOOLEAN, inDst \in BOOLEAN, fnOk \in BOOLEAN :
         /\ ~inSrc => \A n \in Range(TrgNames) : src[n] = NoTrigger
         /\ ~inDst => \A n \in Range(TrgNames) : dst[n] = NoTrigger
         /\ tg = [stage |-> "start", src |-> src, dst |-> dst,
                  inSrc |-> inSrc, inDst |-> inDst, fnOk |-> fnOk,
                  make |-> <<>>, drop |-> {}]

\* reconcile_table_triggers on a table missing from either schema
TrgSkip ==
    /\ tg.stage = "start" /\ (~tg.inSrc \/ ~tg.inDst)
    /\ tg' = [tg EXCEPT !.stage = "done"]
    /\ UNCHANGED <<engVars, pre, con, idx, sq, nd, sw, pl, runVars>>

\* _fetch_triggers_defs of both schemas
TrgFetch ==
    /\ tg.stage = "start" /\ tg.inSrc /\ tg.inDst
    /\ tg' = [tg EXCEPT
                !.stage = "run",
                !.make = SelectSeq(TrgNames, LAMBDA n :
                            tg.src[n] # NoTrigger /\ tg.dst[n] = NoTrigger),
                !.drop = {n \in Range(TrgNames) :
                            tg.dst[n] # NoTrigger /\ tg.src[n] = NoTrigger}]
    /\ UNCHANGED <<engVars, pre, con, idx, sq, nd, sw, pl, runVars>>

\* a source trigger absent from the destination: execute its rewritten
\* definition
TrgCreateMissing ==
    /\ tg.stage = "run" /\ tg.make # <<>>
    /\ LET n == Head(tg.make)
       IN  tg' = [tg EXCEPT
                    !.dst = CreateTrigger(tg.dst, n,
                               PrepareTriggerDef(tg.src[n]), tg.fnOk),
                    !.make = Tail(@)]
    /\ UNCHANGED <<engVars, pre, con, idx, sq, nd, sw, pl, runVars>>

\* a destination trigger absent from the source: DROP TRIGGER IF EXISTS
TrgDropExtra(n) ==
    /\ tg.stage = "run" /\ tg.make = <<>> /\ n \in tg.drop
    /\ tg' = [tg EXCEPT !.dst[n] = NoTrigger, !.drop = @ \ {n}]
    /\ UNCHANGED <<engVars, pre, con, idx, sq, nd, sw, pl, runVars>>

\* the counts are returned
TrgReturn ==
    /\ tg.stage = "run" /\ tg.make = <<>> /\ tg.drop = {}
    /\ tg' = [tg EXCEPT !.stage = "done"]
    /\ UNCHANGED <<engVars, pre, con, idx, sq, nd, sw, pl, runVars>>

NextTrg ==
    \/ TrgSkip
    \/ TrgFetch
    \/ TrgCreateMissing
    \/ \E n \in Range(TrgNames) : TrgDropExtra(n)
    \/ TrgReturn

SpecTrg == TrgInit /\ [][NextTrg]_vars

\* -------------------------------------------------------- full migration

\* the reconciliation passes migrate_pipeline runs, in order
PlPasses == <<"sequences", "functions", "triggers", "constraints">>
\* the reconcile.<pass> keys load_config normalises (those of a pass)
RecKeys == {"sequences", "primary_keys", "indexes", "triggers", "constraints"}
\* stages that can raise
PlStages == {"data", "neuter"} \cup Range(PlPasses)
\* the destination objects a pass owns: "stale" differs from the source
PlObjects == RecKeys \cup {"functions"}
\* the stage after pass p
PlAfter(p) ==
    IF \E i \in 1..(Len(PlPasses) - 1) : PlPasses[i] = p
    THEN PlPasses[(CHOOSE i \in 1..Len(PlPasses) : PlPasses[i] = p) + 1]
    ELSE "return"

PlInit ==
    /\ EngIdle
    /\ RunIdle
    /\ pre = Idle /\ con = Idle /\ idx = Idle
    /\ sq = Idle /\ tg = Idle /\ nd = Idle /\ sw = Idle
    /\ \E rec \in [RecKeys -> BOOLEAN], neuter \in BOOLEAN,
          srcIdx \in BOOLEAN, raises \in SUBSET PlStages :
         /\ Cardinality(raises) <= 2
         /\ pl = [stage |-> "data", rec |-> rec, neuter |-> neuter,
                  srcIdx |-> srcIdx, raises |-> raises, ran |-> <<>>,
                  run |-> [p \in {"neuter"} \cup Range(PlPasses) |-> "none"],
                  table |-> "absent",
                  obj |-> [o \in PlObjects |-> "stale"],
                  exit |-> "running"]

\* precopy, selections and the table groups: the table is created, set
\* LOGGED and given the source primary key; it has no non-PK index
PlData ==
    /\ pl.stage = "data" /\ "data" \notin pl.raises
    /\ pl' = [pl EXCEPT
                !.stage = IF pl.neuter THEN "neuter" ELSE Head(PlPasses),
                !.ran = Append(@, "data"),
                !.table = "logged",
                !.obj = [@ EXCEPT !["primary_keys"] = "mirrored",
                                  !["indexes"] = IF pl.srcIdx THEN "stale"
                                                 ELSE "mirrored"]]
    /\ UNCHANGED <<engVars, pre, con, idx, sq, tg, nd, sw, runVars>>

\* an error of precopy or of a group is not caught: main does not return
PlDataRaise ==
    /\ pl.stage = "data" /\ "data" \in pl.raises
    /\ pl' = [pl EXCEPT !.stage = "done", !.ran = Append(@, "data"),
                        !.exit = "failure"]
    /\ UNCHANGED <<engVars, pre, con, idx, sq, tg, nd, sw, runVars>>

\* if cfg.get('neuter'): neuter_data inside try/except Exception
PlNeuter ==
    /\ pl.stage = "neuter"
    /\ pl' = [pl EXCEPT
                !.stage = Head(PlPasses),
                !.ran = Append(@, "neuter"),
                !.run = [@ EXCEPT !["neuter"] =
                            IF "neuter" \in pl.raises THEN "error"
                            ELSE "applied"]]
    /\ UNCHANGED <<engVars, pre, con, idx, sq, tg, nd, sw, runVars>>

\* one reconciliation pass inside its try/except Exception: an error becomes
\* run[p] = {"result": "error"} and the next pass follows
PlPass(p) ==
    /\ pl.stage = p
    /\ pl' = [pl EXCEPT
                !.stage = PlAfter(p),
                !.ran = Append(@, p),
                !.run = [@ EXCEPT ![p] = IF p \in pl.raises THEN "error"
                                         ELSE "ok"],
                !.obj = [@ EXCEPT ![p] = IF p \in pl.raises THEN @
                                         ELSE "mirrored"]]
    /\ UNCHANGED <<engVars, pre, con, idx, sq, tg, nd, sw, runVars>>

\* return run; main emits the envelope and returns 0
PlReturn ==
    /\ pl.stage = "return"
    /\ pl' = [pl EXCEPT !.stage = "done", !.exit = "success"]
    /\ UNCHANGED <<engVars, pre, con, idx, sq, tg, nd, sw, runVars>>

NextPl ==
    \/ PlData
    \/ PlDataRaise
    \/ PlNeuter
    \/ \E p \in Range(PlPasses) : PlPass(p)
    \/ PlReturn

SpecPl == PlInit /\ [][NextPl]_vars

\* ------------------------------------------------------------- redaction

\* text is a sequence of characters
NdNoText == <<>>
\* the SQL null of a text column
NdNull == <<"null">>
NdCat(a, b) == a \o b
\* left(s, n)
NdLeft(s, n) == IF Len(s) <= n THEN s ELSE SubSeq(s, 1, n)
NdLower(ch) == IF ch = "B" THEN "b" ELSE ch
\* s ILIKE p: % is any text, _ any character, backslash escapes the next
\* pattern character, letters compare case-insensitively
RECURSIVE ILike(_, _)
ILike(s, p) ==
    IF p = <<>> THEN s = <<>>
    ELSE IF Head(p) = "%"
         THEN ILike(s, Tail(p)) \/ (s # <<>> /\ ILike(Tail(s), p))
    ELSE IF Head(p) = "\\" /\ Len(p) >= 2
         THEN /\ s # <<>>
              /\ NdLower(Head(s)) = NdLower(p[2])
              /\ ILike(Tail(s), Tail(Tail(p)))
    ELSE IF Head(p) = "_"
         THEN s # <<>> /\ ILike(Tail(s), Tail(p))
    ELSE /\ s # <<>>
         /\ NdLower(Head(s)) = NdLower(Head(p))
         /\ ILike(Tail(s), Tail(p))

\* the rows a rule's statements reach: all of them, or with sharding those
\* whose key falls in one of the shards 0..modulo-1
NdReached(id, shard) ==
    shard = NULL \/ \E i \in 0..(shard - 1) : PgMod(id, shard) = i

\* the WHERE clause of the prefix UPDATE
NdPrefixApplies(c, rule) ==
    /\ c # NdNull /\ c # NdNoText
    /\ (rule.skip # <<>> => ~ILike(c, rule.skip))
    /\ ~ILike(c, NdCat(rule.value, <<"%">>))
\* SET c = value || c, wrapped in left(..., N) for a bounded column
NdPrefix(c, rule, maxlen) ==
    IF NdPrefixApplies(c, rule)
    THEN IF maxlen = NULL THEN NdCat(rule.value, c)
         ELSE NdLeft(NdCat(rule.value, c), maxlen)
    ELSE c
\* one rule applied to the table
NdApply(rows, rule, maxlen, shard) ==
    [id \in DOMAIN rows |->
        IF ~NdReached(id, shard) THEN rows[id]
        ELSE IF rule.strategy = "prefix"
             THEN NdPrefix(rows[id], rule, maxlen)
             ELSE rule.value]

NdIds == {-1, 2}
NdTexts == {NdNull, NdNoText, <<"b">>, <<"x", "-", "B">>}
NdValues == {<<"x", "-">>, <<"a", "\\">>, <<"y">>}
NdRules ==
    [strategy : {"prefix", "replace"}, value : NdValues,
     skip : {<<>>, <<"b", "%">>}]
MaxRules == 2
NdMaxLens == {NULL, 3}
NdModulos == {NULL, 2}

NdInit ==
    /\ EngIdle
    /\ RunIdle
    /\ pre = Idle /\ con = Idle /\ idx = Idle
    /\ sq = Idle /\ tg = Idle /\ sw = Idle /\ pl = Idle
    /\ \E rows \in [NdIds -> NdTexts], rules \in SeqsUpTo(NdRules, MaxRules),
          maxlen \in NdMaxLens, shard \in NdModulos, enabled \in BOOLEAN :
         /\ rules # <<>>
         /\ nd = [stage |-> "start", pass |-> "first", enabled |-> enabled,
                  rows |-> rows, rules |-> rules, todo |-> <<>>,
                  maxlen |-> maxlen, shard |-> shard, once |-> rows]

\* neuter_data with neuter.enabled false returns False
NdDisabled ==
    /\ nd.stage = "start" /\ ~nd.enabled
    /\ nd' = [nd EXCEPT !.stage = "done"]
    /\ UNCHANGED <<engVars, pre, con, idx, sq, tg, sw, pl, runVars>>

\* the rules of the table are taken in configured order
NdStart ==
    /\ nd.stage = "start" /\ nd.enabled
    /\ nd' = [nd EXCEPT !.stage = "rules", !.todo = nd.rules]
    /\ UNCHANGED <<engVars, pre, con, idx, sq, tg, sw, pl, runVars>>

\* one rule: its UPDATE, or its per-shard UPDATEs, committed
NdRule ==
    /\ nd.stage = "rules" /\ nd.todo # <<>>
    /\ nd' = [nd EXCEPT
                !.rows = NdApply(nd.rows, Head(nd.todo), nd.maxlen, nd.shard),
                !.todo = Tail(@)]
    /\ UNCHANGED <<engVars, pre, con, idx, sq, tg, sw, pl, runVars>>

\* return any_changes
NdReturn ==
    /\ nd.stage = "rules" /\ nd.todo = <<>>
    /\ nd' = [nd EXCEPT !.stage = "done"]
    /\ UNCHANGED <<engVars, pre, con, idx, sq, tg, sw, pl, runVars>>

\* the pass is run a second time on the state the first left
NdAgain ==
    /\ nd.stage = "done" /\ nd.pass = "first"
    /\ nd' = [nd EXCEPT !.stage = "start", !.pass = "second",
                        !.once = nd.rows]
    /\ UNCHANGED <<engVars, pre, con, idx, sq, tg, sw, pl, runVars>>

NextNd ==
    \/ NdDisabled
    \/ NdStart
    \/ NdRule
    \/ NdReturn
    \/ NdAgain

SpecNd == NdInit /\ [][NextNd]_vars

\* ----------------------------------------------- schemas and promotion

SchemaNames == {"public", "app", "stage", "old", "tmp", "shards"}
\* a schema: the name it was created under, whether it holds the table the
\* configuration names, and the state of its materialized views
NoSchema == [tag |-> "absent", tbl |-> FALSE, mv |-> "none"]
Schema(tag, tbl, mv) == [tag |-> tag, tbl |-> tbl, mv |-> mv]
schema_exists(db, n) == db[n] # NoSchema
\* ALTER SCHEMA old RENAME TO new fails when old is missing or new exists
RenameOk(db, old, new) == schema_exists(db, old) /\ ~schema_exists(db, new)
rename_schema(db, old, new) ==
    [db EXCEPT ![new] = db[old], ![old] = NoSchema]
\* REFRESH MATERIALIZED VIEW for every view of the schema
refresh_all_matviews(db, n) ==
    [db EXCEPT ![n].mv = IF @ = "stale" THEN "fresh" ELSE @]
\* DROP SCHEMA IF EXISTS ... CASCADE; CREATE SCHEMA
reset_schema(db, n) == [db EXCEPT ![n] = Schema("new", FALSE, "none")]
\* DROP TABLE IF EXISTS schema.table CASCADE
drop_table_if_exists(db, n) ==
    IF schema_exists(db, n) THEN [db EXCEPT ![n].tbl = FALSE] ELSE db

\* the first and second rename of swap_schemas and unswap_schemas
FirstRename(op, dest) ==
    IF op = "swap" THEN <<"public", "old">> ELSE <<"public", dest>>
\* SecondRename if unswap repeated the second rename of swap
SecondRenameOfSwap(op, dest) == <<dest, "public">>
SecondRename(op, dest) ==
    IF op = "swap" THEN <<dest, "public">> ELSE <<"old", "public">>
\* Precondition without the checks
PreconditionAlways(db, op, dest) == TRUE
\* the checks that precede the renames
Precondition(db, op, dest) ==
    IF op = "swap"
    THEN schema_exists(db, dest) /\ ~schema_exists(db, "old")
    ELSE schema_exists(db, "old") /\ ~schema_exists(db, dest)

\* how many operations a run of the model starts
MaxOps == 2

SwLayouts ==
    {[public |-> Schema("public", TRUE, v), app |-> a, stage |-> s,
      old |-> o, tmp |-> Schema("tmp", FALSE, "none"),
      shards |-> Schema("shards", FALSE, "none")] :
        v \in {"none", "stale"},
        a \in {NoSchema, Schema("app", TRUE, "none")},
        s \in {NoSchema, Schema("stage", FALSE, "none"),
               Schema("stage", TRUE, "none"), Schema("stage", TRUE, "stale")},
        o \in {NoSchema, Schema("old", TRUE, "none")}}
SwConfigs ==
    {c \in [src : {"public", "app"}, dst : {"stage", "public", "app"},
            tmp : {"tmp", "public", "app"},
            shards : {"shards", "public", "app"}] :
        /\ c.tmp \in {"tmp", c.src}
        /\ c.shards \in {"shards", c.src}}

SwInit ==
    /\ EngIdle
    /\ RunIdle
    /\ pre = Idle /\ con = Idle /\ idx = Idle
    /\ sq = Idle /\ tg = Idle /\ nd = Idle /\ pl = Idle
    /\ \E db \in SwLayouts, c \in SwConfigs :
         /\ schema_exists(db, c.src)
         /\ sw = [stage |-> "ready", op |-> "none", last |-> "none",
                  cfg |-> c, db |-> db, origin |-> db, before |-> db,
                  base |-> db, other |-> FALSE, ops |-> 0]

\* swap_schemas / unswap_schemas whose precondition fails: RuntimeError
PromoteRaise(op) ==
    /\ sw.stage = "ready" /\ sw.ops < MaxOps
    /\ ~Precondition(sw.db, op, sw.cfg.dst)
    /\ sw' = [sw EXCEPT !.op = op, !.last = "refused", !.before = sw.db,
                        !.ops = @ + 1]
    /\ UNCHANGED <<engVars, pre, con, idx, sq, tg, nd, pl, runVars>>

\* the checks pass
PromoteCheck(op) ==
    /\ sw.stage = "ready" /\ sw.ops < MaxOps
    /\ Precondition(sw.db, op, sw.cfg.dst)
    /\ sw' = [sw EXCEPT !.stage = "first", !.op = op, !.before = sw.db,
                        !.base = IF op = "unswap" /\ sw.last = "swap"
                                 THEN @ ELSE sw.db,
                        !.last = "running", !.ops = @ + 1]
    /\ UNCHANGED <<engVars, pre, con, idx, sq, tg, nd, pl, runVars>>

\* one rename_schema call with its commit; a failing rename raises
PromoteRename(stage, pair, next) ==
    /\ sw.stage = stage
    /\ IF RenameOk(sw.db, pair[1], pair[2])
       THEN sw' = [sw EXCEPT !.stage = next,
                             !.db = rename_schema(sw.db, pair[1], pair[2])]
       ELSE sw' = [sw EXCEPT !.stage = "ready", !.last = "failed"]
    /\ UNCHANGED <<engVars, pre, con, idx, sq, tg, nd, pl, runVars>>

PromoteFirst ==
    PromoteRename("first", FirstRename(sw.op, sw.cfg.dst), "second")

PromoteSecond ==
    PromoteRename("second", SecondRename(sw.op, sw.cfg.dst), "refresh")

\* refresh_all_matviews('public'); a failure is rolled back and ignored
PromoteRefresh ==
    /\ sw.stage = "refresh"
    /\ \E ok \in BOOLEAN :
         sw' = [sw EXCEPT !.stage = "ready", !.last = sw.op,
                          !.db = IF ok THEN refresh_all_matviews(@, "public")
                                 ELSE @]
    /\ UNCHANGED <<engVars, pre, con, idx, sq, tg, nd, pl, runVars>>

\* another session creates a schema between the checks and the renames
OtherSession(n) ==
    /\ sw.stage \in {"first", "second"} /\ ~sw.other
    /\ ~schema_exists(sw.db, n)
    /\ sw' = [sw EXCEPT !.db[n] = Schema("new", FALSE, "none"),
                        !.other = TRUE]
    /\ UNCHANGED <<engVars, pre, con, idx, sq, tg, nd, pl, runVars>>

\* restart: reset_schema(dest_schema)
Restart ==
    /\ sw.stage = "ready" /\ sw.ops < MaxOps
    /\ sw' = [sw EXCEPT !.op = "restart", !.last = "restart",
                        !.before = sw.db, !.ops = @ + 1,
                        !.db = reset_schema(@, sw.cfg.dst)]
    /\ UNCHANGED <<engVars, pre, con, idx, sq, tg, nd, pl, runVars>>

\* run_reset: the group's tables are dropped from dest_schema and tmp_schema
RunReset ==
    /\ sw.stage = "ready" /\ sw.ops < MaxOps
    /\ sw' = [sw EXCEPT !.op = "reset", !.last = "reset",
                        !.before = sw.db, !.ops = @ + 1,
                        !.db = drop_table_if_exists(
                                   drop_table_if_exists(@, sw.cfg.dst),
                                   sw.cfg.tmp)]
    /\ UNCHANGED <<engVars, pre, con, idx, sq, tg, nd, pl, runVars>>

\* a group build: DROP TABLE IF EXISTS dst.t and CREATE ... LIKE src.t in
\* one transaction (a failing CREATE undoes the DROP), then the scratch
\* cleanup, which skips a shards schema named like another configured one
GroupBuild(sharded) ==
    /\ sw.stage = "ready" /\ sw.ops < MaxOps
    /\ LET c == sw.cfg
           ok == /\ schema_exists(sw.db, c.dst)
                 /\ sw.db[c.src].tbl
                 /\ c.dst # c.src
           built == IF ok THEN [sw.db EXCEPT ![c.dst].tbl = TRUE] ELSE sw.db
           banned == {c.src, c.dst, c.tmp, "public"}
       IN  sw' = [sw EXCEPT
                    !.op = "group", !.last = IF ok THEN "group" ELSE "failed",
                    !.before = sw.db, !.ops = @ + 1,
                    !.db = IF ok /\ sharded /\ c.shards \notin banned
                           THEN reset_schema(built, c.shards) ELSE built]
    /\ UNCHANGED <<engVars, pre, con, idx, sq, tg, nd, pl, runVars>>

\* precopy creates the table in dest_schema when it is not there
PrecopyTable ==
    /\ sw.stage = "ready" /\ sw.ops < MaxOps
    /\ LET c == sw.cfg
           ok == schema_exists(sw.db, c.dst) /\ sw.db[c.src].tbl
       IN  sw' = [sw EXCEPT
                    !.op = "precopy",
                    !.last = IF ok THEN "precopy" ELSE "failed",
                    !.before = sw.db, !.ops = @ + 1,
                    !.db = IF ok THEN [@ EXCEPT ![c.dst].tbl = TRUE] ELSE @]
    /\ UNCHANGED <<engVars, pre, con, idx, sq, tg, nd, pl, runVars>>

NextSw ==
    \/ \E op \in {"swap", "unswap"} : PromoteRaise(op)
    \/ \E op \in {"swap", "unswap"} : PromoteCheck(op)
    \/ PromoteFirst
    \/ PromoteSecond
    \/ PromoteRefresh
    \/ \E n \in {"public", "old", "stage"} : OtherSession(n)
    \/ Restart
    \/ RunReset
    \/ \E u \in BOOLEAN : GroupBuild(u)
    \/ PrecopyTable

SpecSw == SwInit /\ [][NextSw]_vars

\* ---------------------------------------------------- phased data stage

\* a table group as configured: its name, root.selection ("none" when the
\* key is absent), the mode of root.selector ("none" without a selector)
\* and whether root.phase is post
PhGroup(n, a, m, p) == [name |-> n, alias |-> a, mode |-> m, post |-> p]
PhGroupCfgs(n) ==
    {PhGroup(n, a, m, p) : a \in {"none", "a", "rx"},
                           m \in {"none", "list", "bogus"}, p \in BOOLEAN}
\* load_config: one root per group that has a selector, named by the
\* selection alias or else by the group
PhRoots(groups) ==
    LET withSel == SelectSeq(groups, LAMBDA g : g.mode # "none")
    IN  [i \in DOMAIN withSel |->
            [name |-> IF withSel[i].alias # "none" THEN withSel[i].alias
                      ELSE withSel[i].name,
             mode |-> withSel[i].mode, post |-> withSel[i].post]]
PreRoots(groups) == SelectSeq(PhRoots(groups), LAMBDA r : ~r.post)
PostRoots(groups) == SelectSeq(PhRoots(groups), LAMBDA r : r.post)
RootNames(roots) == {roots[i].name : i \in DOMAIN roots}
PreFams(groups) ==
    SelectSeq(groups, LAMBDA g :
        g.alias \in RootNames(PreRoots(groups)) \/ g.alias = "none")
\* migrate_pipeline keeps the groups whose alias names a post root;
\* restart_pipeline keeps those whose alias names no pre root
PostFams(cmd, groups) ==
    IF cmd = "restart"
    THEN SelectSeq(groups, LAMBDA g :
            g.alias \notin RootNames(PreRoots(groups)) /\ g.alias # "none")
    ELSE SelectSeq(groups, LAMBDA g :
            g.alias \in RootNames(PostRoots(groups)))
\* _required_roots_for_families over all groups: the roots an alias names
RequiredRoots(groups) ==
    SelectSeq(PhRoots(groups), LAMBDA r :
        r.name \in {groups[i].alias : i \in DOMAIN groups})
\* the roots and groups of one phase of one command
PhaseRoots(cmd, phase, groups) ==
    IF cmd = "tables" THEN RequiredRoots(groups)
    ELSE IF phase = "pre" THEN PreRoots(groups) ELSE PostRoots(groups)
PhaseFams(cmd, phase, groups) ==
    IF cmd = "tables" THEN groups
    ELSE IF phase = "pre" THEN PreFams(groups) ELSE PostFams(cmd, groups)
\* _select_ids raises ValueError for a mode it does not know
Unsupported(roots) == \E i \in DOMAIN roots : roots[i].mode = "bogus"

PhNoDb == [schema |-> FALSE, precopy |-> FALSE, tables |-> {}]

PhInit ==
    /\ EngIdle
    /\ pre = Idle /\ con = Idle /\ idx = Idle /\ OpsIdle
    /\ lc = Idle /\ rq = Idle /\ rs = Idle /\ wk = Idle /\ nt = Idle
    /\ va = Idle
    /\ \E g1 \in PhGroupCfgs("g1"), g2 \in PhGroupCfgs("g2"),
          cmd \in {"migrate", "restart", "tables"}, hasDst \in BOOLEAN,
          precopy \in BOOLEAN :
         /\ (g1.mode = "none" => ~g1.post)
         /\ (g2.mode = "none" => ~g2.post)
         /\ LET db == [PhNoDb EXCEPT !.schema = hasDst]
            IN  ph = [stage |-> "start", cmd |-> cmd, groups |-> <<g1, g2>>,
                      precopy |-> precopy, phase |-> "pre", todo |-> <<>>,
                      db |-> db, db0 |-> db, log |-> <<>>]

\* restart: reset_schema(dest_schema)
PhReset ==
    /\ ph.stage = "start" /\ ph.cmd = "restart"
    /\ ph' = [ph EXCEPT !.stage = "precopy",
                        !.db = [PhNoDb EXCEPT !.schema = TRUE]]
    /\ UNCHANGED <<engVars, pre, con, idx, opsVars, lc, rq, rs, wk, nt, va>>

\* migrate_precopy: ensure_schemas and the precopy tables
PhPrecopy ==
    /\ \/ ph.stage = "start" /\ ph.cmd = "migrate"
       \/ ph.stage = "precopy"
    /\ ph' = [ph EXCEPT !.stage = "select",
                        !.db = [@ EXCEPT !.schema = TRUE,
                                         !.precopy = @ \/ ph.precopy]]
    /\ UNCHANGED <<engVars, pre, con, idx, opsVars, lc, rq, rs, wk, nt, va>>

\* run_migrate_tables starts at the selections
PhTables ==
    /\ ph.stage = "start" /\ ph.cmd = "tables"
    /\ ph' = [ph EXCEPT !.stage = "select"]
    /\ UNCHANGED <<engVars, pre, con, idx, opsVars, lc, rq, rs, wk, nt, va>>

\* build_selections of the phase: ensure_schemas, then every root in order;
\* an unsupported mode raises
PhSelect ==
    /\ ph.stage = "select"
    /\ LET roots == PhaseRoots(ph.cmd, ph.phase, ph.groups)
           fams == PhaseFams(ph.cmd, ph.phase, ph.groups)
       IN  ph' = [ph EXCEPT
                    !.db = [@ EXCEPT !.schema = TRUE],
                    !.stage = IF Unsupported(roots) THEN "raised"
                              ELSE "build",
                    !.todo = IF Unsupported(roots) THEN <<>> ELSE fams,
                    !.log = IF Unsupported(roots) THEN @
                            ELSE @ \o [i \in DOMAIN roots |->
                                         <<"select", roots[i].name,
                                           ph.phase>>]]
    /\ UNCHANGED <<engVars, pre, con, idx, opsVars, lc, rq, rs, wk, nt, va>>

\* run_families: the next group of the phase is built, or skipped when its
\* table is already in the destination
PhBuild ==
    /\ ph.stage = "build" /\ ph.todo # <<>>
    /\ LET g == Head(ph.todo)
       IN  ph' = [ph EXCEPT
                    !.todo = Tail(@),
                    !.db = [@ EXCEPT !.tables = @ \cup {g.name}],
                    !.log = IF g.name \in ph.db.tables THEN @
                            ELSE Append(@, <<"build", g.name, ph.phase>>)]
    /\ UNCHANGED <<engVars, pre, con, idx, opsVars, lc, rq, rs, wk, nt, va>>

\* the pre phase is over: the post phase follows (migrate-tables has one)
PhNextPhase ==
    /\ ph.stage = "build" /\ ph.todo = <<>>
    /\ ph' = [ph EXCEPT
                !.stage = IF ph.phase = "pre" /\ ph.cmd # "tables"
                          THEN "select" ELSE "done",
                !.phase = IF ph.cmd # "tables" THEN "post" ELSE @]
    /\ UNCHANGED <<engVars, pre, con, idx, opsVars, lc, rq, rs, wk, nt, va>>

NextPh ==
    \/ PhReset
    \/ PhPrecopy
    \/ PhTables
    \/ PhSelect
    \/ PhBuild
    \/ PhNextPhase

SpecPh == PhInit /\ [][NextPh]_vars

\* ------------------------------------------- redaction over the targets

\* neuter.targets in configured order
NtTables == <<"customer", "other">>
\* a rule: its strategy and whether its column exists in the table
NtRules ==
    [strategy : {"prefix", "replace", "hash"}, value : {<<"x", "-">>},
     skip : {<<>>}, column : {"email", "nickname"}]
NtRows == [NdIds -> {NdNull, <<"b">>}]
\* the rule as one pass of the rule loop leaves the table: a rule on a
\* column the table lacks is passed over, prefix and replace are applied and
\* committed
NtApplyRule(rows, rule) ==
    IF rule.column # "email" THEN rows ELSE NdApply(rows, rule, NULL, NULL)
\* the rule reaches the final else: raise ValueError
NtRaises(rule) ==
    rule.column = "email" /\ rule.strategy \notin {"prefix", "replace"}
\* the (table, rule) pairs neuter_data visits: only_table filters the tables
NtVisited(targets, only) ==
    [t \in Range(NtTables) |->
        IF only # "all" /\ t # only THEN <<>> ELSE targets[t]]
NtFlatten(byTable) ==
    LET first == NtTables[1]
        second == NtTables[2]
    IN  [i \in 1..Len(byTable[first]) |-> <<first, byTable[first][i]>>]
        \o [i \in 1..Len(byTable[second]) |-> <<second, byTable[second][i]>>]

NtInit ==
    /\ EngIdle
    /\ pre = Idle /\ con = Idle /\ idx = Idle /\ OpsIdle
    /\ ph = Idle /\ lc = Idle /\ rq = Idle /\ rs = Idle /\ wk = Idle
    /\ va = Idle
    /\ \E rc \in SeqsUpTo(NtRules, MaxRules), ro \in SeqsUpTo(NtRules, 1),
          rows \in NtRows, via \in {"cli", "api"},
          only \in {"all"} \cup Range(NtTables) :
         /\ rc # <<>> /\ ro # <<>>
         /\ LET db == [t \in Range(NtTables) |->
                         IF t = "customer" THEN rows
                         ELSE [id \in NdIds |-> <<"b">>]]
            IN  nt = [stage |-> "start", via |-> via, only |-> only,
                      targets |-> [t \in Range(NtTables) |->
                                      IF t = "customer" THEN rc ELSE ro],
                      todo |-> <<>>, db |-> db, db0 |-> db]

\* --neuter-only takes no value: a table name after it makes the argument
\* parser exit with status 2 before anything runs
NtUsage ==
    /\ nt.stage = "start" /\ nt.via = "cli" /\ nt.only # "all"
    /\ nt' = [nt EXCEPT !.stage = "usage"]
    /\ UNCHANGED <<engVars, pre, con, idx, opsVars, ph, lc, rq, rs, wk, va>>

\* run_neuter calls neuter_data(conn, cfg); a direct call may pass only_table
NtStart ==
    /\ nt.stage = "start" /\ (nt.via = "api" \/ nt.only = "all")
    /\ nt' = [nt EXCEPT !.stage = "rules",
                        !.todo = NtFlatten(NtVisited(nt.targets, nt.only))]
    /\ UNCHANGED <<engVars, pre, con, idx, opsVars, ph, lc, rq, rs, wk, va>>

\* the next rule: applied and committed, passed over, or raising
NtRule ==
    /\ nt.stage = "rules" /\ nt.todo # <<>>
    /\ LET t == Head(nt.todo)[1]
           rule == Head(nt.todo)[2]
       IN  IF NtRaises(rule)
           THEN nt' = [nt EXCEPT !.stage = "raised"]
           ELSE nt' = [nt EXCEPT !.todo = Tail(@),
                                 !.db[t] = NtApplyRule(@, rule)]
    /\ UNCHANGED <<engVars, pre, con, idx, opsVars, ph, lc, rq, rs, wk, va>>

\* return any_changes
NtReturn ==
    /\ nt.stage = "rules" /\ nt.todo = <<>>
    /\ nt' = [nt EXCEPT !.stage = "done"]
    /\ UNCHANGED <<engVars, pre, con, idx, opsVars, ph, lc, rq, rs, wk, va>>

NextNt ==
    \/ NtUsage
    \/ NtStart
    \/ NtRule
    \/ NtReturn

SpecNt == NtInit /\ [][NextNt]_vars

\* ------------------------------------------------ a group over several runs

\* the group's tables: the root and the dependents in declared order
LcTables(deps) ==
    <<"r">> \o [i \in DOMAIN deps |-> IF i = 1 THEN "d1" ELSE "d2"]
LcAllTables == {"r", "d1", "d2"}
\* a destination table: absent, building (UNLOGGED, no PK) or logged, and
\* whether it still is the table, with its hand-added rows, the first run
\* found
LcAbsent == [st |-> "absent", hand |-> FALSE]
LcBuilding == [st |-> "building", hand |-> FALSE]
LcLogged == [st |-> "logged", hand |-> FALSE]
LcByHand == [st |-> "logged", hand |-> TRUE]
\* the test without the group's tables: no group is ever skipped
AllExistNever(db, deps) == FALSE
\* all(table_exists(conn, dst, t) for t in fam_tables)
AllExist(db, deps) ==
    \A t \in Range(LcTables(deps)) : db[t].st # "absent"
\* how many commands a run of the model issues
MaxRuns == 2

LcInit ==
    /\ EngIdle
    /\ pre = Idle /\ con = Idle /\ idx = Idle /\ OpsIdle
    /\ ph = Idle /\ rq = Idle /\ rs = Idle /\ wk = Idle /\ nt = Idle
    /\ va = Idle
    /\ \E root \in {"simple", "sharded"},
          deps \in SeqsUpTo({"simple", "sources", "pk_mod"}, 2),
          precopyRoot \in BOOLEAN, present \in BOOLEAN :
         /\ deps # <<>>
         /\ LET db == [t \in LcAllTables |->
                         IF present /\ t \in Range(LcTables(deps))
                         THEN LcByHand ELSE LcAbsent]
            IN  lc = [stage |-> "ready", root |-> root, deps |-> deps,
                      precopyRoot |-> precopyRoot, db |-> db, tx |-> db,
                      before |-> db, i |-> 0, created |-> <<>>,
                      last |-> "none", failedAt |-> 0, runs |-> 0]

\* precopy of a full_copy table that is also the group's root: created
\* LOGGED when absent, switched to LOGGED when UNLOGGED, left alone otherwise
LcPrecopy ==
    /\ lc.stage = "ready" /\ lc.runs < MaxRuns /\ lc.precopyRoot
    /\ LET new == IF lc.db["r"].st = "logged" THEN lc.db["r"] ELSE LcLogged
           db == [lc.db EXCEPT !["r"] = new]
       IN  lc' = [lc EXCEPT !.db = db, !.tx = db, !.before = lc.db,
                            !.last = "precopy", !.runs = @ + 1,
                            !.created = <<>>]
    /\ UNCHANGED <<engVars, pre, con, idx, opsVars, ph, rq, rs, wk, nt, va>>

\* run_families: every table of the group exists, the group is skipped
LcSkip ==
    /\ lc.stage = "ready" /\ lc.runs < MaxRuns
    /\ AllExist(lc.db, lc.deps)
    /\ lc' = [lc EXCEPT !.before = lc.db, !.last = "skipped",
                        !.runs = @ + 1, !.created = <<>>]
    /\ UNCHANGED <<engVars, pre, con, idx, opsVars, ph, rq, rs, wk, nt, va>>

\* the root: DROP TABLE IF EXISTS and CREATE UNLOGGED; the sharded form
\* commits before its parallel inserts, the simple form does not commit
LcRoot ==
    /\ lc.stage = "ready" /\ lc.runs < MaxRuns
    /\ ~AllExist(lc.db, lc.deps)
    /\ LET tx == [lc.db EXCEPT !["r"] = LcBuilding]
       IN  lc' = [lc EXCEPT !.stage = "deps", !.i = 1, !.before = lc.db,
                            !.tx = tx, !.created = <<>>,
                            !.db = IF lc.root = "sharded" THEN tx ELSE @,
                            !.last = "running", !.runs = @ + 1]
    /\ UNCHANGED <<engVars, pre, con, idx, opsVars, ph, rq, rs, wk, nt, va>>

\* the i-th dependent. Simple form: CREATE ... AS, which fails on an
\* existing table, and no commit. Multi-source and pk_mod forms: DROP TABLE
\* IF EXISTS, CREATE, commit, then the inserts. A failing statement raises
\* out of run_families and the open transaction is rolled back.
LcDep ==
    /\ lc.stage = "deps" /\ lc.i <= Len(lc.deps)
    /\ \E fails \in BOOLEAN :
         LET t == LcTables(lc.deps)[lc.i + 1]
             form == lc.deps[lc.i]
             made == [lc.tx EXCEPT ![t] = LcBuilding]
             stops == IF form = "simple"
                      THEN fails \/ lc.tx[t].st # "absent"
                      ELSE fails
             kept == IF form = "simple" THEN lc.db ELSE made
         IN  IF stops
             THEN lc' = [lc EXCEPT !.stage = "ready", !.last = "raised",
                                   !.failedAt = lc.i, !.db = kept,
                                   !.tx = kept]
             ELSE lc' = [lc EXCEPT !.i = @ + 1, !.tx = made,
                                   !.db = IF form = "simple" THEN @
                                          ELSE made]
    /\ UNCHANGED <<engVars, pre, con, idx, opsVars, ph, rq, rs, wk, nt, va>>

\* finalization, root first: ANALYZE (which commits what is open), SET
\* LOGGED, the primary key; the tables are recorded as created
LcFinalize ==
    /\ lc.stage = "deps" /\ lc.i > Len(lc.deps)
    /\ LET db == [t \in LcAllTables |->
                    IF t \in Range(LcTables(lc.deps)) THEN LcLogged
                    ELSE lc.tx[t]]
       IN  lc' = [lc EXCEPT !.stage = "ready", !.last = "built",
                            !.db = db, !.tx = db,
                            !.created = LcTables(lc.deps)]
    /\ UNCHANGED <<engVars, pre, con, idx, opsVars, ph, rq, rs, wk, nt, va>>

NextLc ==
    \/ LcPrecopy
    \/ LcSkip
    \/ LcRoot
    \/ LcDep
    \/ LcFinalize

SpecLc == LcInit /\ [][NextLc]_vars

\* ------------------------------------- the selections a subset of groups needs

RqNames == {"a", "b", "c"}
RqNone == "none"
\* a selection name no root declares
RqUndefined == "z"
\* a declared root: mode list, or scope_or_exists with its scope_selection
\* and the selection its exists filter reads (none without an exists block)
RqList == [mode |-> "list", scope |-> RqNone, filter |-> RqNone]
RqScoped == [mode : {"scope_or_exists"}, scope : RqNames \cup {RqUndefined},
             filter : RqNames \cup {RqNone}]
\* a table group: the root's selection and the selection of a dep source
RqGroupNames == {"g1", "g2"}
\* the selections _select_ids reads when it evaluates a root
RqReads(root) ==
    IF root.mode = "scope_or_exists"
    THEN {root.scope, root.filter} \ {RqNone}
    ELSE {}
\* run_migrate_tables: the requested groups, every group when none is named
RqFiltered(groups, requested) ==
    IF requested = {} THEN DOMAIN groups ELSE requested
\* the selections the selected groups name themselves
RqSeed(groups, selected) ==
    UNION {{groups[g].root, groups[g].source} : g \in selected} \ {RqNone}
\* the loop without the test that a name is not yet required
RqMissingAgain(roots, req) ==
    {roots[n].scope : n \in {x \in req \cap DOMAIN roots :
                                roots[x].mode = "scope_or_exists"}}
\* one round of the while loop: the scope selections still missing; a name
\* without a declared root is passed over
RqMissing(roots, req) ==
    {roots[n].scope : n \in {x \in req \cap DOMAIN roots :
                                roots[x].mode = "scope_or_exists"}}
        \ req

RqInit ==
    /\ EngIdle
    /\ pre = Idle /\ con = Idle /\ idx = Idle /\ OpsIdle
    /\ ph = Idle /\ lc = Idle /\ rs = Idle /\ wk = Idle /\ nt = Idle
    /\ va = Idle
    /\ \E ra \in RqScoped \cup {RqList}, rb \in RqScoped \cup {RqList},
          s1 \in RqNames \cup {RqUndefined}, d1 \in {RqNone, "c"},
          s2 \in {"b", "c"}, requested \in {{}, {"g1"}, {"g2"}} :
         rq = [stage |-> "start",
               roots |-> [n \in RqNames |->
                            IF n = "a" THEN ra ELSE IF n = "b" THEN rb
                            ELSE RqList],
               groups |-> [g \in RqGroupNames |->
                            IF g = "g1" THEN [root |-> s1, source |-> d1]
                            ELSE [root |-> s2, source |-> RqNone]],
               requested |-> requested, req |-> {}, result |-> {},
               resolved |-> <<>>]

\* the first loop: the selections of the selected groups
RqCollect ==
    /\ rq.stage = "start"
    /\ rq' = [rq EXCEPT !.stage = "closing",
                !.req = RqSeed(rq.groups,
                               RqFiltered(rq.groups, rq.requested))]
    /\ UNCHANGED <<engVars, pre, con, idx, opsVars, ph, lc, rs, wk, nt, va>>

\* the while loop adds the scope_selection of a required scope_or_exists root
RqAdd ==
    /\ rq.stage = "closing"
    /\ \E n \in RqMissing(rq.roots, rq.req) :
         rq' = [rq EXCEPT !.req = @ \cup {n}]
    /\ UNCHANGED <<engVars, pre, con, idx, opsVars, ph, lc, rs, wk, nt, va>>

\* nothing changed in a round: the declared roots among the names
RqReturn ==
    /\ rq.stage = "closing"
    /\ RqMissing(rq.roots, rq.req) = {}
    /\ rq' = [rq EXCEPT !.stage = "done",
                !.result = rq.req \cap DOMAIN rq.roots]
    /\ UNCHANGED <<engVars, pre, con, idx, opsVars, ph, lc, rs, wk, nt, va>>

\* build_selections resolves the returned roots one after the other, in the
\* order of the list; the list is built by iterating over the set req, whose
\* order the language leaves open
RqResolve ==
    /\ rq.stage = "done"
    /\ \E n \in rq.result \ Range(rq.resolved) :
         rq' = [rq EXCEPT !.resolved = Append(@, n)]
    /\ UNCHANGED <<engVars, pre, con, idx, opsVars, ph, lc, rs, wk, nt, va>>

NextRq ==
    \/ RqCollect
    \/ RqAdd
    \/ RqReturn
    \/ RqResolve

SpecRq == RqInit /\ [][NextRq]_vars
\* the resolver is never suspended: a step that can be taken is taken
SpecRqFair == SpecRq /\ WF_vars(NextRq)

\* ------------------------------------------------------- reset of named groups

\* s LIKE p: % is any text, _ any one character
RECURSIVE Like(_, _)
Like(s, p) ==
    IF p = <<>> THEN s = <<>>
    ELSE IF Head(p) = "%"
         THEN Like(s, Tail(p)) \/ (s # <<>> /\ Like(Tail(s), p))
    ELSE IF Head(p) = "_"
         THEN s # <<>> /\ Like(Tail(s), Tail(p))
    ELSE s # <<>> /\ Head(s) = Head(p) /\ Like(Tail(s), Tail(p))

\* table names, a character per element
RsTableNames ==
    {<<"o">>, <<"o", "_", "s", "h", "p">>, <<"a", "_", "b">>,
     <<"a", "x", "b">>}
RsGroupNames == {"g1", "g2"}
Rel(schema, name) == [schema |-> schema, name |-> name]
\* the shard tables the engine builds for a table: <t>_sh<i>, <t>_pmsh<i>
ShName(t) == t \o <<"_", "s", "h", "0">>
PmshName(t) == t \o <<"_", "p", "m", "s", "h", "0">>
\* list_relations_like(conn, shards, pattern)
list_relations_like(db, schema, pattern) ==
    {r.name : r \in {x \in db : x.schema = schema /\ Like(x.name, pattern)}}
\* DROP TABLE IF EXISTS ... CASCADE over a set of relations
drop_tables_if_exists(db, rels) == db \ rels
\* the body of run_reset for one group
ResetGroup(db, tables) ==
    LET d1 == drop_tables_if_exists(db, {Rel("dst", t) : t \in tables})
        d2 == drop_tables_if_exists(d1, {Rel("tmp", t) : t \in tables})
        shard_rels == UNION {list_relations_like(d2, "shards",
                                                 t \o <<"_", "s", "h", "%">>)
                             \cup list_relations_like(d2, "shards",
                                     t \o <<"_", "p", "m", "s", "h", "%">>)
                             : t \in tables}
    IN  drop_tables_if_exists(d2, {Rel("shards", n) : n \in shard_rels})

RsInit ==
    /\ EngIdle
    /\ pre = Idle /\ con = Idle /\ idx = Idle /\ OpsIdle
    /\ ph = Idle /\ lc = Idle /\ rq = Idle /\ wk = Idle /\ nt = Idle
    /\ va = Idle
    /\ \E r1 \in RsTableNames, r2 \in RsTableNames,
          dep \in SUBSET RsTableNames, withTmp \in BOOLEAN,
          requested \in {<<"g1">>, <<"g2">>, <<"g1", "g2">>, <<"zz">>} :
         /\ r1 # r2 /\ Cardinality(dep) <= 1 /\ dep \cap {r1, r2} = {}
         /\ LET groups == [g \in RsGroupNames |->
                             IF g = "g1" THEN {r1} \cup dep ELSE {r2}]
                all == {r1, r2} \cup dep
            IN  \E arts \in SUBSET ({ShName(t) : t \in all}
                                    \cup {PmshName(t) : t \in all}) :
                  LET db == {Rel("dst", t) : t \in all}
                            \cup (IF withTmp THEN {Rel("tmp", t) : t \in all}
                                  ELSE {})
                            \cup {Rel("shards", n) : n \in arts}
                  IN  rs = [stage |-> "start", groups |-> groups,
                            requested |-> requested, db |-> db,
                            before |-> db, i |-> 1]

\* cli: an unknown group name is reported and nothing is run
RsInvalid ==
    /\ rs.stage = "start"
    /\ \E k \in DOMAIN rs.requested : rs.requested[k] \notin DOMAIN rs.groups
    /\ rs' = [rs EXCEPT !.stage = "usage"]
    /\ UNCHANGED <<engVars, pre, con, idx, opsVars, ph, lc, rq, wk, nt, va>>

\* run_reset: the next requested group
RsGroup ==
    /\ rs.stage \in {"start", "running"}
    /\ \A k \in DOMAIN rs.requested : rs.requested[k] \in DOMAIN rs.groups
    /\ rs.i <= Len(rs.requested)
    /\ rs' = [rs EXCEPT !.stage = "running", !.i = @ + 1,
                !.db = ResetGroup(rs.db, rs.groups[rs.requested[rs.i]])]
    /\ UNCHANGED <<engVars, pre, con, idx, opsVars, ph, lc, rq, wk, nt, va>>

RsReturn ==
    /\ rs.stage = "running" /\ rs.i > Len(rs.requested)
    /\ rs' = [rs EXCEPT !.stage = "done"]
    /\ UNCHANGED <<engVars, pre, con, idx, opsVars, ph, lc, rq, wk, nt, va>>

NextRs ==
    \/ RsInvalid
    \/ RsGroup
    \/ RsReturn

SpecRs == RsInit /\ [][NextRs]_vars

\* ------------------------------------------------- parallel worker tasks

\* the most tasks one gather starts, and the widest semaphore
MaxTasks == 3
MaxPar == 2
\* the gathers of each fan-out, in the order the code runs them
WkPlans ==
    [precopy |-> <<"schema_only", "full_copy">>,
     root |-> <<"build_one", "insert_one">>,
     dep |-> <<"build_pmsh", "insert_pmsh">>,
     neuter |-> <<"run_shard">>]
WkPreNames == <<"p0", "p1", "p2", "p3">>
\* the relation task i of a gather writes
WkTarget(kind, i) ==
    IF kind \in {"schema_only", "full_copy"}
    THEN [schema |-> "dst", table |-> WkPreNames[i + 1], shard |-> -1]
    ELSE IF kind = "build_one"
    THEN [schema |-> "shards", table |-> "r", shard |-> i]
    ELSE IF kind = "insert_one"
    THEN [schema |-> "dst", table |-> "r", shard |-> -1]
    ELSE IF kind = "build_pmsh"
    THEN [schema |-> "shards", table |-> "d", shard |-> i]
    ELSE IF kind = "insert_pmsh"
    THEN [schema |-> "dst", table |-> "d", shard |-> -1]
    ELSE [schema |-> "dst", table |-> "r", shard |-> -1]
WkRunning == {i \in DOMAIN wk.tasks : wk.tasks[i] = "running"}

WkInit ==
    /\ EngIdle
    /\ pre = Idle /\ con = Idle /\ idx = Idle /\ OpsIdle
    /\ ph = Idle /\ lc = Idle /\ rq = Idle /\ rs = Idle /\ nt = Idle
    /\ va = Idle
    /\ \E fan \in DOMAIN WkPlans, n \in 2..MaxTasks, par \in 1..MaxPar :
         wk = [stage |-> "driver", plan |-> WkPlans[fan], k |-> 1,
               n |-> n, par |-> par,
               tasks |-> [i \in 0..(n - 1) |-> "none"]]

\* the driver creates one task per item or shard and gathers them; before
\* an insert gather it has dropped, recreated and committed the target
WkGather ==
    /\ wk.stage = "driver" /\ wk.k <= Len(wk.plan)
    /\ wk' = [wk EXCEPT !.stage = "gather",
                !.tasks = [i \in 0..(wk.n - 1) |-> "waiting"]]
    /\ UNCHANGED <<engVars, pre, con, idx, opsVars, ph, lc, rq, rs, nt, va>>

\* async with sem: a waiting task enters while fewer than par are inside
WkEnter(i) ==
    /\ wk.stage = "gather" /\ wk.tasks[i] = "waiting"
    /\ Cardinality(WkRunning) < wk.par
    /\ wk' = [wk EXCEPT !.tasks[i] = "running"]
    /\ UNCHANGED <<engVars, pre, con, idx, opsVars, ph, lc, rq, rs, nt, va>>

\* the task's statement has run and its connection has committed
WkLeave(i) ==
    /\ wk.stage = "gather" /\ wk.tasks[i] = "running"
    /\ wk' = [wk EXCEPT !.tasks[i] = "done"]
    /\ UNCHANGED <<engVars, pre, con, idx, opsVars, ph, lc, rq, rs, nt, va>>

\* asyncio.gather returns when every task is done
WkJoin ==
    /\ wk.stage = "gather"
    /\ \A i \in DOMAIN wk.tasks : wk.tasks[i] = "done"
    /\ wk' = [wk EXCEPT !.stage = "driver", !.k = @ + 1]
    /\ UNCHANGED <<engVars, pre, con, idx, opsVars, ph, lc, rq, rs, nt, va>>

NextWk ==
    \/ WkGather
    \/ \E i \in 0..(MaxTasks - 1) : i \in DOMAIN wk.tasks /\ WkEnter(i)
    \/ \E i \in 0..(MaxTasks - 1) : i \in DOMAIN wk.tasks /\ WkLeave(i)
    \/ WkJoin

SpecWk == WkInit /\ [][NextWk]_vars

\* ------------------------------------------- parallel foreign-key validation

\* the most not-validated foreign keys of a table and the widest semaphore
MaxFks == 3
MaxValPar == 3
VaTables == <<"child", "parent">>
\* the (table, conname) pairs of one table, ORDER BY conname
VaFks(t, n) == [k \in 1..n |-> [table |-> t, name |-> k]]
\* the tables of the pairs in the order of their first appearance
RECURSIVE VaGroupKeys(_)
VaGroupKeys(fks) ==
    IF fks = <<>> THEN <<>>
    ELSE <<Head(fks).table>>
            \o VaGroupKeys(SelectSeq(Tail(fks),
                               LAMBDA f : f.table # Head(fks).table))
VaTask(t, names) ==
    [table |-> t, names |-> names, st |-> "waiting", cur |-> 0]
\* one task per pair, as in the branch that does not group
ValidateTasksEach(fks, across) ==
    [k \in DOMAIN fks |-> VaTask(fks[k].table, <<fks[k].name>>)]
\* _runner: with validate_across_tables_only one task per table, which runs
\* the table's names one after the other; else one task per pair
ValidateTasks(fks, across) ==
    IF across
    THEN LET keys == VaGroupKeys(fks)
         IN  [g \in DOMAIN keys |->
                VaTask(keys[g],
                       LET mine == SelectSeq(fks,
                                       LAMBDA f : f.table = keys[g])
                       IN  [k \in DOMAIN mine |-> mine[k].name])]
    ELSE [k \in DOMAIN fks |-> VaTask(fks[k].table, <<fks[k].name>>)]
VaInside == {i \in DOMAIN va.tasks : va.tasks[i].st = "running"}

\* every caller leaves validate_across_tables_only at its default
VaInit ==
    /\ EngIdle
    /\ pre = Idle /\ con = Idle /\ idx = Idle /\ OpsIdle
    /\ ph = Idle /\ lc = Idle /\ rq = Idle /\ rs = Idle /\ wk = Idle
    /\ nt = Idle
    /\ \E nfk \in [Range(VaTables) -> 0..MaxFks], par \in 2..MaxValPar :
         va = [stage |-> "table", queue |-> VaTables, nfk |-> nfk,
               par |-> par, across |-> TRUE, tasks |-> <<>>,
               validated |-> 0]

\* the next table: its not-validated foreign keys; none, nothing to run
VaRunner ==
    /\ va.stage = "table" /\ va.queue # <<>>
    /\ LET fks == VaFks(Head(va.queue), va.nfk[Head(va.queue)])
       IN  va' = IF fks = <<>>
                 THEN [va EXCEPT !.queue = Tail(@)]
                 ELSE [va EXCEPT !.stage = "gather",
                                 !.tasks = ValidateTasks(fks, va.across)]
    /\ UNCHANGED <<engVars, pre, con, idx, opsVars, ph, lc, rq, rs, wk, nt>>

\* async with sem, then the task's own connection
VaEnter(i) ==
    /\ va.stage = "gather" /\ va.tasks[i].st = "waiting"
    /\ Cardinality(VaInside) < va.par
    /\ va' = [va EXCEPT !.tasks[i].st = "running"]
    /\ UNCHANGED <<engVars, pre, con, idx, opsVars, ph, lc, rq, rs, wk, nt>>

\* _validate_one: ALTER TABLE ... VALIDATE CONSTRAINT is sent
VaExecute(i) ==
    /\ va.stage = "gather" /\ va.tasks[i].st = "running"
    /\ va.tasks[i].cur = 0 /\ va.tasks[i].names # <<>>
    /\ va' = [va EXCEPT !.tasks[i].cur = Head(va.tasks[i].names),
                        !.tasks[i].names = Tail(@)]
    /\ UNCHANGED <<engVars, pre, con, idx, opsVars, ph, lc, rq, rs, wk, nt>>

\* _validate_one: the statement has ended and is committed
VaCommit(i) ==
    /\ va.stage = "gather" /\ va.tasks[i].st = "running"
    /\ va.tasks[i].cur # 0
    /\ va' = [va EXCEPT !.tasks[i].cur = 0, !.validated = @ + 1]
    /\ UNCHANGED <<engVars, pre, con, idx, opsVars, ph, lc, rq, rs, wk, nt>>

\* the task has run all its names and leaves the semaphore
VaLeave(i) ==
    /\ va.stage = "gather" /\ va.tasks[i].st = "running"
    /\ va.tasks[i].cur = 0 /\ va.tasks[i].names = <<>>
    /\ va' = [va EXCEPT !.tasks[i].st = "done"]
    /\ UNCHANGED <<engVars, pre, con, idx, opsVars, ph, lc, rq, rs, wk, nt>>

\* asyncio.gather has returned: on to the next table
VaJoin ==
    /\ va.stage = "gather"
    /\ \A i \in DOMAIN va.tasks : va.tasks[i].st = "done"
    /\ va' = [va EXCEPT !.stage = "table", !.queue = Tail(@),
                        !.tasks = <<>>]
    /\ UNCHANGED <<engVars, pre, con, idx, opsVars, ph, lc, rq, rs, wk, nt>>

VaReturn ==
    /\ va.stage = "table" /\ va.queue = <<>>
    /\ va' = [va EXCEPT !.stage = "done"]
    /\ UNCHANGED <<engVars, pre, con, idx, opsVars, ph, lc, rq, rs, wk, nt>>

NextVa ==
    \/ VaRunner
    \/ \E i \in 1..MaxFks : i \in DOMAIN va.tasks /\ VaEnter(i)
    \/ \E i \in 1..MaxFks : i \in DOMAIN va.tasks /\ VaExecute(i)
    \/ \E i \in 1..MaxFks : i \in DOMAIN va.tasks /\ VaCommit(i)
    \/ \E i \in 1..MaxFks : i \in DOMAIN va.tasks /\ VaLeave(i)
    \/ VaJoin
    \/ VaReturn

SpecVa == VaInit /\ [][NextVa]_vars

\* ------------------------------------------------------------------ claims
RootMaterialized == pc \notin {"select", "root", "root_insert"}
DepInserted ==
    \/ pc = "distinct"
    \/ ~cfg.dep.distinct /\ pc \in {"finalize", "cleanup", "done", "error"}
SelRows == EvalSql(selsrc.sql)

C3_EnsuredRowsInRoot ==
    (RootMaterialized /\ cfg.root.attached)
        => \A e \in Range(cfg.root.ensure) \cap SrcRootIds :
              e \in DOMAIN dstRoot.rows

\* C4: the sub-query registered for a resolved root evaluates to exactly
\* the set of identifiers build_selections returned for it.
C4_SubqueryReturnsIds ==
    pc # "select" => Range(SelRows) = Range(selections)

\* C5: the shard sub-queries of a sharded root are pairwise disjoint and
\* their union is the selection registered for the root.
C5_ShardsPartitionSelection ==
    (pc # "select" /\ cfg.root.count > 1)
        => /\ \A i, j \in DOMAIN selsrc.shards :
                i # j => Range(EvalSql(selsrc.shards[i]))
                           \cap Range(EvalSql(selsrc.shards[j])) = {}
           /\ UNION {Range(EvalSql(selsrc.shards[i])) : i \in DOMAIN selsrc.shards}
                = Range(SelRows)

\* C6: a pk_mod dep ends with the row multiset of the simple-form join of
\* the same dep against the same parent.
C6_PkModEqualsSimpleJoin ==
    (cfg.dep.form = "pk_mod" /\ DepInserted)
        => dstDep.rows = JoinBag(SrcDep, dstRoot.rows, "join")

\* C7: distinct post-processing on a dep whose source has a primary key
\* leaves exactly one row for every key that was in the table, and no other.
C7_DistinctOnePerKey ==
    [][(pc = "distinct" /\ pc' = "finalize" /\ cfg.dep.hasPk)
        => /\ \A r \in DOMAIN dstDep.rows :
                BagCardinality([x \in {y \in DOMAIN dstDep'.rows :
                                        PkOf(y) = PkOf(r)}
                                  |-> dstDep'.rows[x]]) = 1
           /\ {PkOf(r) : r \in DOMAIN dstDep'.rows}
                = {PkOf(r) : r \in DOMAIN dstDep.rows}]_vars

C7_Witness ==
    /\ pc = "finalize" /\ cfg.dep.distinct /\ cfg.dep.hasPk
    /\ cfg.dep.form = "sources" /\ Len(created) = 0
    /\ \E d \in DOMAIN dstDep.rows :
         /\ dstDep.rows[d] = 1
         /\ JoinBag(SrcDep, dstRoot.rows, "join")[d] >= 2

\* C2 (as stated): after migrate_precopy returns without error, every table
\* of precopy.full_copy holds in the destination exactly the source's rows,
\* whatever the destination held before and whether or not the table is
\* also listed in precopy.schema_only.
C2_FullCopyEqualsSource ==
    pre.stage = "done"
        => \A t \in pre.fc : pre.dst[t].rows = pre.src[t].rows

\* C2 (amended): after migrate_precopy returns without error, a table of
\* precopy.full_copy that was absent from the destination and is not listed
\* in precopy.schema_only holds exactly the source's rows; a table that was
\* present keeps the rows it had, and one also listed in schema_only is
\* empty.
C2_FreshFullCopyEqualsSource ==
    pre.stage = "done"
        => \A t \in pre.fc :
              pre.dst[t].rows =
                 IF pre.init[t].exists THEN pre.init[t].rows
                 ELSE IF t \in pre.so THEN EmptyBag
                 ELSE pre.src[t].rows

C2_Witness ==
    /\ pre.stage = "done"
    /\ \E t \in pre.fc :
          /\ ~pre.init[t].exists /\ t \notin pre.so
          /\ BagCardinality(pre.src[t].rows) = MaxPreRows
          /\ pre.dst[t].rows = pre.src[t].rows
          /\ pre.dst[t].logged /\ pre.dst[t].pk
          /\ t \in pre.createdFc

\* the canonical form the constraint maps are compared in: kind and
\* definition, without schema qualifiers and without NOT VALID
Canon(d) == [kind |-> d.kind, body |-> d.body, deferrable |-> d.deferrable]
ConReconciled(t) ==
    /\ con.stage = "done"
    /\ ~ConSkipped(t)

\* C8: after mirror_all_constraints returns without error, every table in
\* both schemas (and in only_tables when given) has in the destination the
\* source's map from constraint name to canonical definition: every source
\* name with an equal definition, and no other name.
C8_ConstraintMapsEqual ==
    \A t \in Range(ConTables) :
        ConReconciled(t)
            => \A n \in ConNameSet :
                  Canon(ConDstOf(t)[n]) = Canon(ConSrcOf(t)[n])

\* C9: after constraint reconciliation completes without error with
\* foreign-key validation not skipped, from the command line or as the
\* pipeline's constraint stage, every foreign key of the destination has
\* convalidated = true.
C9_AllFksValidated ==
    (con.stage = "done" /\ con.call.validateFks)
        => \A n \in ConNameSet :
              con.db.cons[n].kind = "f" => con.db.cons[n].valid

\* an index definition as the claim compares it: columns and uniqueness,
\* without the schema qualifier
IdxCanon(d) == [col |-> d.col, unique |-> d.unique]

\* C10: after reconcile_table_indexes returns for a table present in both
\* schemas, the destination table has exactly the source table's non-PK
\* index names and each common name has a matching definition, also when a
\* CREATE INDEX or DROP INDEX of the pass failed.
C10_IndexesReconciled ==
    (idx.stage = "done" /\ idx.inSrc /\ idx.inDst)
        => /\ FetchIndexes(idx.dst) = FetchIndexes(idx.src)
           /\ \A n \in FetchIndexes(idx.src) :
                 IdxCanon(idx.dst[n]) = IdxCanon(idx.src[n])

\* C11 (as stated): after reconcile_sequences returns, every source
\* sequence exists in the destination with the source's next value, and a
\* source sequence owned by a column is owned in the destination by the same
\* table.column.
C11_SequencesAligned ==
    sq.stage = "done"
        => \A n \in Range(SeqNames) :
              sq.src[n].exists
                 => /\ sq.dst[n].exists
                    /\ SeqNext(sq.dst[n]) = SeqNext(sq.src[n])
                    /\ sq.src[n].owner # "none"
                          => sq.dst[n].owner = sq.src[n].owner

\* C11 (amended): after reconcile_sequences returns, every source sequence
\* exists in the destination with the source's next value; a source sequence
\* owned by a column that exists in the destination is owned there by the
\* same table.column, and one owned by no column is owned by none.
C11_AlignedWhereColumnExists ==
    sq.stage = "done"
        => \A n \in Range(SeqNames) :
              sq.src[n].exists
                 => /\ sq.dst[n].exists
                    /\ SeqNext(sq.dst[n]) = SeqNext(sq.src[n])
                    /\ sq.src[n].owner \in sq.cols \cup {"none"}
                          => sq.dst[n].owner = sq.src[n].owner

C11_Witness ==
    /\ sq.stage = "done"
    /\ sq.src["s1"].exists /\ sq.src["s1"].called /\ sq.src["s1"].inc = 2
    /\ sq.src["s1"].owner = "t.a" /\ sq.dst["s1"].owner = "t.a"
    /\ SeqNext(sq.dst["s1"]) = 7
    /\ sq.src["s2"].exists /\ sq.src["s2"].owner = "none"
    /\ ~sq.dst["s2"].called

\* C12: after reconcile_table_triggers returns for a table present in both
\* schemas, the destination table has exactly the source table's trigger
\* names, each with the source definition rewritten to the destination
\* schema, also when a same-named trigger with another definition was there
\* before.
C12_TriggersReconciled ==
    (tg.stage = "done" /\ tg.inSrc /\ tg.inDst)
        => \A n \in Range(TrgNames) :
              tg.dst[n] = IF tg.src[n] = NoTrigger THEN NoTrigger
                          ELSE PrepareTriggerDef(tg.src[n])

\* the stages of the run that raised
PlRaised == {s \in Range(pl.ran) : s \in pl.raises}

\* C13: after migrate_pipeline completes without error, a destination table
\* created by precopy or by a group is LOGGED, has the source primary key,
\* and its non-PK indexes and constraints are mirrored from the source.
C13_TablesReconciled ==
    (pl.stage = "done" /\ pl.exit = "success" /\ PlRaised = {})
        => /\ pl.table = "logged"
           /\ pl.obj["primary_keys"] = "mirrored"
           /\ pl.obj["indexes"] = "mirrored"
           /\ pl.obj["constraints"] = "mirrored"

\* C19: when reconcile.<pass> is false the full migration does not run that
\* pass and leaves the objects of that pass unchanged.
C19_FlagsGatePasses ==
    \A k \in RecKeys :
        ~pl.rec[k] => (~InSeq(k, pl.ran) /\ pl.obj[k] = "stale")

\* C20: when redaction or a reconciliation pass raises, the failure reaches
\* the caller: no later stage is run and the command does not exit with
\* success.
C20_FailuresSurface ==
    \A i \in DOMAIN pl.ran :
        (pl.ran[i] \in pl.raises /\ pl.ran[i] # "data")
            => /\ i = Len(pl.ran)
               /\ pl.exit # "success"

\* C14: redaction is idempotent: whatever the rules, skip patterns, column
\* length and sharding, a second run of neuter_data leaves the table as the
\* first run left it.
C14_NeuterIdempotent ==
    (nd.stage = "done" /\ nd.pass = "second") => nd.rows = nd.once

\* the names present and absent agree in two layouts
SameNames(a, b) ==
    \A n \in SchemaNames : schema_exists(a, n) <=> schema_exists(b, n)
\* a schema apart from the state of its materialized views
SameApartFromViews(a, b) ==
    \A n \in SchemaNames : a[n].tag = b[n].tag /\ a[n].tbl = b[n].tbl
\* a successful unswap has just followed a successful swap
SwapThenUnswap ==
    /\ sw.stage = "ready" /\ sw.last = "unswap" /\ sw.ops = 2
    /\ sw.before # sw.base /\ ~sw.other

\* C15: a successful swap followed by a successful unswap restores the
\* pre-swap layout: the same names are present and each name holds the
\* contents it held before the swap.
C15_SwapUnswapRestores == SwapThenUnswap => sw.db = sw.base

\* C15 (amended): the names and the schemas under them, with their tables,
\* are restored; the materialized views of public and of dest_schema may
\* have been refreshed.
C15_SwapUnswapRestoresSchemas ==
    SwapThenUnswap
        => /\ SameNames(sw.db, sw.base)
           /\ SameApartFromViews(sw.db, sw.base)
           /\ \A n \in SchemaNames \ {"public", sw.cfg.dst} :
                 sw.db[n] = sw.base[n]

C15_Witness ==
    /\ SwapThenUnswap
    /\ sw.base["public"].mv = "stale"
    /\ sw.db["public"].mv = "fresh"
    /\ sw.cfg.dst = "stage"
    /\ sw.db["stage"].tag = "stage"

\* C16: in no reachable state has public been renamed to old_schema while
\* dest_schema has not been renamed to public.
C16_SwapAtomic ==
    ~(/\ sw.op = "swap"
      /\ sw.last \in {"running", "failed"}
      /\ schema_exists(sw.before, "public")
      /\ sw.db["old"] = sw.before["public"]
      /\ sw.db["public"] # sw.before[sw.cfg.dst])

\* the call was made where the claim says it must refuse: swap with
\* dest_schema missing or old_schema present, unswap with old_schema missing
\* or dest_schema present
MustRefuse ==
    \/ /\ sw.op = "swap"
       /\ (~schema_exists(sw.before, sw.cfg.dst)
              \/ schema_exists(sw.before, "old"))
    \/ /\ sw.op = "unswap"
       /\ (~schema_exists(sw.before, "old")
              \/ schema_exists(sw.before, sw.cfg.dst))

\* C17: a swap or unswap whose precondition fails raises and renames
\* nothing: the schema layout after the call is the layout before it.
C17_RefusedRenamesNothing ==
    MustRefuse => (sw.last = "refused" /\ sw.db = sw.before)

C17_Witness ==
    /\ sw.last = "refused" /\ sw.op = "swap"
    /\ schema_exists(sw.db, "old")
    /\ schema_exists(sw.db, "public")
    /\ sw.db = sw.before

\* C18: no engine operation drops or renames the source schema or a table
\* in it, whatever the configured schema names.
C18_SourceUntouched ==
    ~sw.other
        => /\ sw.db[sw.cfg.src].tag = sw.cfg.src
           /\ sw.origin[sw.cfg.src].tbl => sw.db[sw.cfg.src].tbl

\* C21: a configuration with a root of unsupported selector mode makes
\* migrate and migrate-tables abort before any mutation: the run never
\* completes and the destination schema, precopy tables and group tables
\* are as before the command.
C21_BadModeAbortsEarly ==
    (ph.cmd \in {"migrate", "tables"} /\ Unsupported(PhRoots(ph.groups)))
        => (ph.db = ph.db0 /\ ph.stage # "done")

\* the groups built in a phase, from the log
BuiltIn(phase) ==
    {ph.log[i][2] : i \in {j \in DOMAIN ph.log :
                              ph.log[j][1] = "build" /\ ph.log[j][3] = phase}}
\* C30: in a completed full migration every group is built in exactly one
\* phase, a group whose root selection is a post root is built in the post
\* phase, nothing of the post phase precedes a pre-phase build, and migrate
\* and restart split the groups identically.
C30_PhasesPartitionGroups ==
    (ph.stage = "done" /\ ph.cmd \in {"migrate", "restart"})
        => /\ \A i \in DOMAIN ph.groups :
                 /\ ph.groups[i].name \in BuiltIn("pre") \cup BuiltIn("post")
                 /\ ph.groups[i].name \notin
                        BuiltIn("pre") \cap BuiltIn("post")
           /\ \A i \in DOMAIN ph.groups :
                 LET g == ph.groups[i]
                     own == IF g.alias # "none" THEN g.alias ELSE g.name
                 IN  own \in RootNames(PostRoots(ph.groups))
                         /\ own \notin RootNames(PreRoots(ph.groups))
                       => g.name \in BuiltIn("post")
           /\ \A i, j \in DOMAIN ph.log :
                 (ph.log[i][3] = "post" /\ ph.log[j][3] = "pre") => j < i
           /\ PostFams("migrate", ph.groups) = PostFams("restart", ph.groups)

\* some configured rule has a strategy other than prefix and replace
NtBadStrategy ==
    \E t \in Range(NtTables) : \E i \in DOMAIN nt.targets[t] :
        nt.targets[t][i].strategy \notin {"prefix", "replace"}

\* C22: with a rule of unsupported strategy under neuter.targets,
\* neuter_data fails and the destination is unchanged: no rule before or
\* after it has been applied and the rule is not silently skipped.
C22_BadStrategyChangesNothing ==
    (NtBadStrategy /\ nt.only = "all" /\ nt.stage # "start")
        => (nt.db = nt.db0 /\ nt.stage # "done")

\* the rules of a table all applied, in order
RECURSIVE NtApplyAll(_, _)
NtApplyAll(rows, rules) ==
    IF rules = <<>> THEN rows
    ELSE NtApplyAll(NtApplyRule(rows, Head(rules)), Tail(rules))

\* C25: the neuter-only command scoped to TABLE applies the rules of
\* neuter.targets.TABLE and leaves every other table unchanged.
C25_ScopedNeuterOnly ==
    (nt.via = "cli" /\ nt.only # "all" /\ ~NtBadStrategy
        /\ nt.stage \in {"done", "usage", "raised"})
        => \A t \in Range(NtTables) :
              nt.db[t] = IF t = nt.only
                         THEN NtApplyAll(nt.db0[t], nt.targets[t])
                         ELSE nt.db0[t]

\* every table of the group was in the destination when the run began
LcAllPresentBefore ==
    \A t \in Range(LcTables(lc.deps)) : lc.before[t].st # "absent"

\* C23: when every table of a group already exists, run_families skips the
\* group: no table of it is dropped, rebuilt or modified, hand-added rows
\* remain, and none is reported as created.
C23_CompleteGroupSkipped ==
    (lc.last \in {"skipped", "running", "built", "raised"}
        /\ LcAllPresentBefore)
        => /\ lc.last = "skipped"
           /\ lc.db = lc.before
           /\ lc.created = <<>>

C23_Witness ==
    /\ lc.last = "skipped"
    /\ \A t \in Range(LcTables(lc.deps)) : lc.db[t] = LcByHand
    /\ Len(lc.deps) = 2

\* the lifecycle order
LcRank(t) == IF t.st = "absent" THEN 0 ELSE IF t.st = "building" THEN 1 ELSE 2

\* C28: over any sequence of precopy and migrate-tables runs no destination
\* table moves backward in the order absent, building, logged; a logged
\* table is never dropped or rebuilt as UNLOGGED.
C28_LifecycleForward ==
    [][\A t \in LcAllTables : LcRank(lc'.db[t]) >= LcRank(lc.db[t])]_vars

\* C29: when the k-th dependent fails, the root and the dependents before
\* it, materialized in the same run, are still in the destination.
C29_EarlierTablesKept ==
    (lc.last = "raised")
        => \A j \in 1..lc.failedAt :
              lc.db[LcTables(lc.deps)[j]].st # "absent"

\* the selections reachable from a set by following what selectors read
RECURSIVE RqClosure(_, _)
RqClosure(roots, names) ==
    LET more == UNION {RqReads(roots[n]) : n \in names \cap DOMAIN roots}
                    \ names
    IN  IF more = {} THEN names ELSE RqClosure(roots, names \cup more)

\* C24: the roots run_migrate_tables resolves for a subset of groups are
\* exactly the selections the selected groups name, closed under what the
\* required selectors read (scope_selection and the exists filter's
\* selection).
C24_ExactClosure ==
    rq.stage = "done"
        => rq.result =
              RqClosure(rq.roots,
                        RqSeed(rq.groups,
                               RqFiltered(rq.groups, rq.requested)))
                  \cap DOMAIN rq.roots

\* the resolved roots are the closure under scope_selection alone
RqScopeClosed ==
    rq.stage = "done"
        => /\ RqSeed(rq.groups, RqFiltered(rq.groups, rq.requested))
                \subseteq rq.result
           /\ \A n \in rq.result :
                (rq.roots[n].mode = "scope_or_exists"
                    /\ rq.roots[n].scope \in DOMAIN rq.roots)
                    => rq.roots[n].scope \in rq.result

\* what belongs to a set of tables: their destination tables, their tmp
\* copies and their shard tables
RsOwned(tables) ==
    {Rel("dst", t) : t \in tables} \cup {Rel("tmp", t) : t \in tables}
        \cup {Rel("shards", ShName(t)) : t \in tables}
        \cup {Rel("shards", PmshName(t)) : t \in tables}
RsNamedTables ==
    UNION {rs.groups[rs.requested[k]] : k \in DOMAIN rs.requested}

\* C26: reset NAMES drops the named groups' destination tables, tmp copies
\* and shard artifacts and nothing else; what belongs to groups not named,
\* also when table names share a prefix, is unchanged.
C26_ResetOnlyNamed ==
    rs.stage = "done" => rs.db = rs.before \ RsOwned(RsNamedTables)

\* everything the named groups own is gone after the reset
RsNamedDropped ==
    rs.stage = "done" => rs.db \cap RsOwned(RsNamedTables) = {}

\* C27: no two worker tasks that run at the same time write the same
\* destination-schema table; the parallel tasks of a sharded build write
\* disjoint per-shard tables only.
C27_NoSharedDestinationWrite ==
    wk.stage = "gather"
        => \A i, j \in WkRunning :
              (i # j /\ WkTarget(wk.plan[wk.k], i).schema = "dst")
                  => WkTarget(wk.plan[wk.k], i) # WkTarget(wk.plan[wk.k], j)

\* the tasks that build shard tables and the precopy tasks never share a
\* relation
WkBuildsDisjoint ==
    (wk.stage = "gather"
        /\ wk.plan[wk.k] \in {"schema_only", "full_copy", "build_one",
                              "build_pmsh"})
        => \A i, j \in WkRunning :
              i # j => WkTarget(wk.plan[wk.k], i) # WkTarget(wk.plan[wk.k], j)

\* C31: when run_families has completed and sharding was used, for the
\* root's selection or for a pk_mod dep, no <table>_sh<i> and no
\* <table>_pmsh<i> table is left in the shards schema.
C31_NoScratchLeft ==
    (pc = "done" /\ (Sharded(cfg.root) \/ cfg.dep.form = "pk_mod"))
        => rootSh = NoShards /\ depSh = NoShards

\* C32: whenever a root with scope_selection X is resolved, X has been
\* resolved before it.
C32_ScopeResolvedFirst ==
    \A k \in DOMAIN rq.resolved :
        LET r == rq.roots[rq.resolved[k]]
        IN  r.mode = "scope_or_exists"
                => \E j \in 1..(k - 1) : rq.resolved[j] = r.scope

\* the required names from which following scope_selection comes back to
\* the name itself
RECURSIVE RqReach(_, _, _)
RqReach(roots, n, fuel) ==
    IF fuel = 0 \/ n \notin DOMAIN roots \/ roots[n].mode # "scope_or_exists"
    THEN {}
    ELSE {roots[n].scope} \cup RqReach(roots, roots[n].scope, fuel - 1)
RqCyclic(roots, req) ==
    \E n \in req : n \in RqReach(roots, n, Cardinality(DOMAIN roots))

\* C33: when the scope_selection references of the required roots form a
\* cycle, the computation does not return a set of roots.
C33_CycleIsFatal ==
    (rq.stage = "done" /\ rq.req # {}) => ~RqCyclic(rq.roots, rq.req)

\* C40: the computation of the required selections terminates, whatever the
\* configuration: cyclic scope_selection references, undefined names.
C40_RequiredRootsTerminates ==
    <>(rq.stage = "done")

C40_Witness ==
    /\ rq.stage = "done"
    /\ RqCyclic(rq.roots, rq.req)
    /\ RqUndefined \in rq.req

\* C34: in the precopy stage a failing task keeps no task of another listed
\* table, of either list, from running: when the first recorded error is
\* raised, the tasks of both lists have run to their end.
C34_FailureStopsNoTask ==
    pre.stage = "error"
        => /\ (pre.so # {} => "so" \in pre.ended)
           /\ (pre.fc # {} => "fc" \in pre.ended)

\* within one list every task has ended when the error is raised
PreListCompletes ==
    pre.stage = "error" => PreFinished

\* the tasks whose VALIDATE CONSTRAINT statement is in flight
VaInFlight == {i \in DOMAIN va.tasks : va.tasks[i].cur # 0}

\* C35: with validate_parallel > 1 no two VALIDATE CONSTRAINT statements on
\* the same destination table are in flight at the same time, however many
\* not-validated foreign keys the table has.
C35_SameTableSerialized ==
    va.stage = "gather"
        => \A i, j \in VaInFlight :
              i # j => va.tasks[i].table # va.tasks[j].table

\* a table with the most foreign keys, its second statement in flight
C35_Witness ==
    /\ va.stage = "gather"
    /\ va.nfk[Head(va.queue)] = MaxFks
    /\ va.validated >= 1
    /\ VaInFlight # {}

\* the rules applied in order by the unsharded UPDATE of each
RECURSIVE NdUnsharded(_, _, _)
NdUnsharded(rows, rules, maxlen) ==
    IF rules = <<>> THEN rows
    ELSE NdUnsharded(NdApply(rows, Head(rules), maxlen, NULL), Tail(rules),
                     maxlen)

\* C36: with shard.{column, modulo} and parallel > 1 the shards partition the
\* table: the sharded pass leaves the state the unsharded pass of the same
\* rules leaves, whatever the values of the shard column.
C36_ShardsCoverTable ==
    (nd.stage = "done" /\ nd.enabled /\ nd.shard # NULL)
        => nd.rows = NdUnsharded(nd.once, nd.rules, nd.maxlen)

\* for shard column values that are not negative the shards cover the rows
NdShardsCoverNonNegative ==
    \A id \in {x \in NdIds : x >= 0}, m \in NdModulos \ {NULL} :
        Cardinality({i \in 0..(m - 1) : PgMod(id, m) = i}) = 1

\* C37: a multi-source dep whose source names a sharded selection receives
\* the rows of the join against the whole of that selection, also when the
\* selection's shard count differs from the shard count of the group's root
\* selection.
C37_SourceCoversSelection ==
    (cfg.dep.form = "sources" /\ cfg.dep.sources = <<"other">>
        /\ selsrc.other.shard /\ ~cfg.dep.distinct /\ DepInserted)
        => dstDep.rows =
              JoinBag(SrcDep, SeqToBag(EvalSql(selsrc.other.sql)), "join")

\* C38: whenever the pass adds a foreign key to a destination table, the
\* primary key or unique constraint it references is already on the
\* referenced destination table; with every table in the destination and
\* walked, the pass does not fail on a foreign key whose referenced key is
\* not placed yet.
C38_FkAfterReferencedKey ==
    (/\ con # Idle /\ con.stage = "error" /\ ~con.call.onlyGiven
     /\ con.err.at \in {"add", "replace"}
     /\ con.src[con.err.name].kind = "f")
        => con.refKey.placed
\* a foreign key that references a primary key is added after
\* migrate_primary_keys has placed it
ConFkOnPrimaryKeyAdded ==
    (/\ con # Idle /\ con.stage = "error"
     /\ con.err.at \in {"add", "replace"}
     /\ con.src[con.err.name].kind = "f")
        => con.refKey.kind = "u"

\* C39: replacing a same-named constraint whose definition differs is
\* all-or-nothing: when the add of the source definition fails, the table
\* still carries the constraint it had under that name.
C39_ReplaceAllOrNothing ==
    (con # Idle /\ con.stage = "error" /\ con.err.at = "replace")
        => con.db.cons[con.err.name] = con.snap[con.err.name]

====
